---- MODULE Spec2Model ----
(***************************************************************************)
(* Model of the comment enrichment and metrics layer of the GitHub review  *)
(* analyzer: DataCollector.enhanceCommentMetadata with its helpers         *)
(* (detectResolutionStatus, enhanceReactionData, validateReactionType,     *)
(* buildReplyMap), GitHubClient.mapReactionType and MetricsCalculator       *)
(* (calculateSummary, calculateDetailed, calculateAverages,                *)
(* calculatePercentages, handleEdgeCases); and of the pipeline around it:  *)
(* GitHubClient (authenticate, getPullRequests, the retrying paginated     *)
(* fetch, the sanitizing of console output and error messages),            *)
(* DataCollector (collectPullRequests, collectComments), the storage of    *)
(* collected data as JSON and ConfigurationManager.loadConfig.             *)
(*                                                                         *)
(* Representation.                                                         *)
(*   text       a sequence of one-character strings; the check mark glyph  *)
(*              U+2705 is the single element "CHECK"                       *)
(*   Date       its getTime() value, an integer; NotADate is a createdAt   *)
(*              that is no Date object (getTime is not a function on it,   *)
(*              and every relational comparison with it is false)          *)
(*   undefined  UndefinedBody for a comment without body; 0 for an absent  *)
(*              inReplyToId (the code tests it for truthiness, and GitHub  *)
(*              ids are positive)                                          *)
(*   Reaction   [type], the only field the modelled code reads or writes   *)
(*              apart from user.type and createdAt, which nothing here     *)
(*              observes                                                   *)
(***************************************************************************)
EXTENDS Integers, Sequences, FiniteSets, TLC

VARIABLES
  comments,   \* Comment[] handed to enhanceCommentMetadata / calculateSummary
  outcome,    \* "pending" | "returned" | "threw": how the call under study ended
  enhanced,   \* Comment[] returned by enhanceCommentMetadata
  prs,        \* PullRequest[] handed to calculateSummary / calculateDetailed
  summary,    \* MetricsSummary returned by calculateSummary
  called,     \* name of the entry point called last, "none" before any call
  missing,    \* names of the arguments the caller passes as null / undefined
  repository, \* third argument of calculateDetailed
  detailed,   \* DetailedMetrics returned by calculateDetailed
  detailedOutcome,  \* "pending" | "returned" | "threw" for calculateDetailed
  operands,   \* number[] handed to calculateAverages, calculatePercentages
              \* (numerator, denominator) or handleEdgeCases (value)
  result,     \* number returned by that call
  authenticated,       \* GitHubClient.authenticated
  authConfig,          \* GitHubClient.authConfig
  authorization,       \* the Authorization header of the client's requests
  inFlight,            \* authenticate calls waiting for the API's answer
  completed,           \* how the authenticate calls ended, in the order of
                       \* their completion: "succeeded" | "failed"
  authentications,     \* number of authenticate calls made
  requests,            \* per entry point, the number of API requests the
                       \* client has issued for it
  callOutcome,         \* per entry point of client and collector:
                       \* "pending" | "returned" | "threw"
  served,              \* per pull request, what getComments answers for it
  reviewer,            \* reviewerUserName handed to collectComments
  previous,            \* per pull request, its comments field when
                       \* collectComments was entered
  listing,             \* the repository's pulls as the API lists them
  period,              \* timePeriod handed to the pull request calls
  pulled,              \* PullRequest[] returned by getPullRequests
  collected,           \* PullRequest[] returned by collectPullRequests
  toSave,              \* [prs, comments] handed to saveCollectedData
  file,                \* content of the data file, NoFile while it is absent
  loaded,              \* [prs, comments] returned by loadCollectedData
  loadOutcome,         \* "pending" | "returned" | "threw"
  env,                 \* process.env, "" for a variable that is not set
  loadedConfig,        \* AppConfig returned by loadConfig
  configOutcome,       \* how the loadConfig call ended: "pending" |
                       \* "returned" | "threw", or "rejected" when
                       \* runCompleteWorkflow raised before it
  configCall,          \* "none" | "loadConfig" | "runCompleteWorkflow"
  written,             \* the line console.log / error / warn wrote last, with
                       \* the credentials the client held then
  thrown,              \* the message of the error the client raised last,
                       \* with the credentials the client held then
  page,                \* page of getPaginatedData
  fetchStatus,         \* "idle" | "requesting" | "sleeping" | "returned" |
                       \* "threw"
  retryCount,          \* error.config.__retryCount of the request in flight
  pageRequests,        \* page requests issued by the fetch, retries left out
  delays,              \* the delays slept before the retries of the request
  received             \* number of items in allData

metricsVars == <<comments, outcome, enhanced, prs, summary, called, missing,
                 repository, detailed, detailedOutcome, operands, result>>

authVars == <<authenticated, authConfig, authorization, inFlight, completed,
              authentications>>

collectorVars == <<served, reviewer, previous>>

pullVars == <<listing, period, pulled, collected>>

storageVars == <<toSave, file, loaded, loadOutcome>>

\* what the calls of client and collector work on, and what they leave alone
onlineVars == <<authVars, requests, callOutcome, collectorVars, pullVars>>

configVars == <<env, loadedConfig, configOutcome, configCall>>

outputVars == <<written, thrown>>

fetchVars == <<page, fetchStatus, retryCount, pageRequests, delays, received>>

offlineVars == <<storageVars, configVars, outputVars, fetchVars>>

pipelineVars == <<onlineVars, offlineVars>>

vars == <<metricsVars, pipelineVars>>

(***************************************************************************)
(* Bounds of the model.                                                    *)
(***************************************************************************)
MaxReactions == 3
MaxTime == 2
MaxBatch == 3
MaxPRs == 2
MaxSummaryComments == 2
MaxOperands == 2
MaxVolumePRs == 3
MaxVolumeComments == 5
MaxValue == 100000
MaxAuthentications == 2
MaxCollectPRs == 2
MaxListing == 3
MaxStoredPRs == 1
MaxStoredComments == 1
MaxPullTime == 3

----------------------------------------------------------------------------
(***************************************************************************)
(* Strings: String.prototype.toLowerCase and String.prototype.includes.    *)
(***************************************************************************)
lowerChar(ch) ==
  CASE ch = "A" -> "a" [] ch = "C" -> "c" [] ch = "D" -> "d" [] ch = "E" -> "e"
    [] ch = "F" -> "f" [] ch = "G" -> "g" [] ch = "L" -> "l" [] ch = "M" -> "m"
    [] ch = "O" -> "o" [] ch = "R" -> "r" [] ch = "S" -> "s" [] ch = "T" -> "t"
    [] ch = "V" -> "v" [] OTHER -> ch

toLowerCase(s) == [i \in 1..Len(s) |-> lowerChar(s[i])]

includes(s, sub) ==
  \E i \in 0..(Len(s) - Len(sub)) : SubSeq(s, i + 1, i + Len(sub)) = sub

UndefinedBody == <<"UNDEFINED">>
NotADate == -1
isDate(t) == t # NotADate

----------------------------------------------------------------------------
(***************************************************************************)
(* DataCollector.detectResolutionStatus                                    *)
(***************************************************************************)
resolutionKeywords ==
  { <<"r","e","s","o","l","v","e","d">>,
    <<"f","i","x","e","d">>,
    <<"d","o","n","e">>,
    <<"c","o","m","p","l","e","t","e","d">>,
    <<"a","d","d","r","e","s","s","e","d">> }

resolvedTag == <<"[","r","e","s","o","l","v","e","d","]">>
checkMark == <<"CHECK">>

detectPositiveTypes == {"thumbs_up", "heart", "hooray", "rocket"}

\* comment.body.toLowerCase() raises a TypeError on a comment without body
detectThrows(comment) == comment.body = UndefinedBody

\* a > b on two Date values; false when either is no Date
laterThan(a, b) == isDate(a) /\ isDate(b) /\ a > b

positiveReactionsOf(comment) ==
  SelectSeq(comment.reactions, LAMBDA reaction : reaction.type \in detectPositiveTypes)

\* mutant: the keyword test on the body as written, not lower-cased
detectResolutionStatus_caseSensitive(comment) ==
  LET bodyLower == toLowerCase(comment.body) IN
  IF includes(bodyLower, resolvedTag) \/ includes(bodyLower, checkMark)
  THEN TRUE
  ELSE IF laterThan(comment.updatedAt, comment.createdAt)
  THEN \E keyword \in resolutionKeywords : includes(comment.body, keyword)
  ELSE Len(positiveReactionsOf(comment)) >= 2

detectResolutionStatus(comment) ==
  LET bodyLower == toLowerCase(comment.body) IN
  IF includes(bodyLower, resolvedTag) \/ includes(bodyLower, checkMark)
  THEN TRUE
  ELSE IF laterThan(comment.updatedAt, comment.createdAt)
  THEN \E keyword \in resolutionKeywords : includes(bodyLower, keyword)
  ELSE Len(positiveReactionsOf(comment)) >= 2

----------------------------------------------------------------------------
(***************************************************************************)
(* DataCollector.validateReactionType / enhanceReactionData                *)
(***************************************************************************)
validTypes ==
  {"thumbs_up", "thumbs_down", "laugh", "hooray", "confused", "heart", "rocket", "eyes"}

\* mutant: 'rocket' missing from the list of valid types
validateReactionType_noRocket(type) ==
  IF type \in validTypes \ {"rocket"} THEN type ELSE "unknown"

validateReactionType(type) == IF type \in validTypes THEN type ELSE "unknown"

\* mutant: invalid reactions filtered out instead of marked
enhanceReactionData_dropInvalid(reactions) ==
  SelectSeq(reactions, LAMBDA reaction : reaction.type \in validTypes)

enhanceReactionData(reactions) ==
  [i \in 1..Len(reactions) |->
     [reactions[i] EXCEPT !.type = validateReactionType(reactions[i].type)]]

----------------------------------------------------------------------------
(***************************************************************************)
(* DataCollector.buildReplyMap                                             *)
(***************************************************************************)
emptyMap == [parentId \in {} |-> <<>>]

\* mutant: the bucket is replaced by the new reply instead of extended
RECURSIVE groupReplies_overwrite(_, _)
groupReplies_overwrite(batch, n) ==
  IF n = 0 THEN emptyMap
  ELSE LET replyMap == groupReplies_overwrite(batch, n - 1)
           comment == batch[n]
           parentId == comment.inReplyToId
       IN IF parentId # 0
          THEN IF parentId \in DOMAIN replyMap
               THEN [replyMap EXCEPT ![parentId] = <<comment>>]
               ELSE replyMap @@ (parentId :> <<comment>>)
          ELSE replyMap

\* the grouping loop over comments[1..n]: push onto the parent's bucket
RECURSIVE groupReplies(_, _)
groupReplies(batch, n) ==
  IF n = 0 THEN emptyMap
  ELSE LET replyMap == groupReplies(batch, n - 1)
           comment == batch[n]
           parentId == comment.inReplyToId
       IN IF parentId # 0
          THEN IF parentId \in DOMAIN replyMap
               THEN [replyMap EXCEPT ![parentId] = Append(@, comment)]
               ELSE replyMap @@ (parentId :> <<comment>>)
          ELSE replyMap

\* mutant: the comparator with its operands swapped (newest first)
RECURSIVE insertByCreatedAt_descending(_, _)
insertByCreatedAt_descending(sorted, c) ==
  IF sorted = <<>> THEN <<c>>
  ELSE IF c.createdAt - sorted[Len(sorted)].createdAt > 0
       THEN Append(insertByCreatedAt_descending(SubSeq(sorted, 1, Len(sorted) - 1), c),
                   sorted[Len(sorted)])
       ELSE Append(sorted, c)

\* insertion of c into a list sorted by the comparator
\* (a, b) => a.createdAt.getTime() - b.createdAt.getTime(); Array.prototype.sort
\* is stable, so c goes behind every element that does not compare greater
RECURSIVE insertByCreatedAt(_, _)
insertByCreatedAt(sorted, c) ==
  IF sorted = <<>> THEN <<c>>
  ELSE IF sorted[Len(sorted)].createdAt - c.createdAt > 0
       THEN Append(insertByCreatedAt(SubSeq(sorted, 1, Len(sorted) - 1), c),
                   sorted[Len(sorted)])
       ELSE Append(sorted, c)

RECURSIVE sortByCreatedAt(_)
sortByCreatedAt(replies) ==
  IF replies = <<>> THEN <<>>
  ELSE insertByCreatedAt(sortByCreatedAt(SubSeq(replies, 1, Len(replies) - 1)),
                         replies[Len(replies)])

\* the comparator runs on every element of a list of two or more, and
\* createdAt.getTime() raises a TypeError when createdAt is no Date
sortThrows(replies) ==
  Len(replies) >= 2 /\ \E i \in 1..Len(replies) : ~isDate(replies[i].createdAt)

buildReplyMapThrows(batch) ==
  LET grouped == groupReplies(batch, Len(batch))
  IN \E parentId \in DOMAIN grouped : sortThrows(grouped[parentId])

buildReplyMap(batch) ==
  LET grouped == groupReplies(batch, Len(batch))
  IN [parentId \in DOMAIN grouped |-> sortByCreatedAt(grouped[parentId])]

----------------------------------------------------------------------------
(***************************************************************************)
(* DataCollector.enhanceCommentMetadata                                    *)
(***************************************************************************)
\* the body of the for loop: the try block, and the catch that pushes the
\* original comment
enhanceComment(comment, replyMap) ==
  IF detectThrows(comment)
  THEN comment
  ELSE [comment EXCEPT
          !.isResolved = detectResolutionStatus(comment),
          !.reactions = enhanceReactionData(comment.reactions),
          !.replies = IF comment.id \in DOMAIN replyMap
                      THEN replyMap[comment.id] ELSE <<>>]

\* buildReplyMap runs before the loop and outside its try block
enhanceCommentMetadataThrows(batch) == buildReplyMapThrows(batch)

\* mutant: the catch block without its push, a failing comment is dropped
enhanceCommentMetadata_dropFailed(batch) ==
  LET replyMap == buildReplyMap(batch)
  IN SelectSeq([i \in 1..Len(batch) |-> enhanceComment(batch[i], replyMap)],
               LAMBDA comment : ~detectThrows(comment))

enhanceCommentMetadata(batch) ==
  LET replyMap == buildReplyMap(batch)
  IN [i \in 1..Len(batch) |-> enhanceComment(batch[i], replyMap)]

----------------------------------------------------------------------------
(***************************************************************************)
(* GitHubClient.mapReactionType                                            *)
(***************************************************************************)
mapReactionType(content) ==
  CASE content = "+1" -> "thumbs_up"
    [] content = "-1" -> "thumbs_down"
    [] content = "laugh" -> "laugh"
    [] content = "hooray" -> "hooray"
    [] content = "confused" -> "confused"
    [] content = "heart" -> "heart"
    [] content = "rocket" -> "rocket"
    [] content = "eyes" -> "eyes"
    [] OTHER -> "unknown"

\* getCommentReactions: response.data.map(...)
convertReactions(contents) ==
  [i \in 1..Len(contents) |-> [type |-> mapReactionType(contents[i])]]

----------------------------------------------------------------------------
(***************************************************************************)
(* MetricsCalculator.calculateSummary.  averageCommentsPerPR is kept in    *)
(* hundredths: Math.round(value * 100) is the integer stored, and the      *)
(* division by 100 that follows is exact on it.                            *)
(***************************************************************************)
\* mutant: 'hooray' missing from the positive types
isPositiveReaction_noHooray(type) == type \in {"thumbs_up", "heart", "rocket"}

isPositiveReaction(type) == type \in {"thumbs_up", "heart", "hooray", "rocket"}

isNegativeReaction(type) == type \in {"thumbs_down", "confused"}

countPullRequests(pullRequests) == Len(pullRequests)

countComments(batch) == Len(batch)

\* mutant: the hundredths cut off, not rounded
roundToTwoDecimals_truncating(numerator, denominator) ==
  (100 * numerator) \div denominator

\* Math.round(value * 100) for value = numerator / denominator, a non-negative
\* quotient: the nearest integer, halves up
roundToTwoDecimals(numerator, denominator) ==
  (200 * numerator + denominator) \div (2 * denominator)

calculateAverageCommentsPerPR(totalComments, totalPRs) ==
  IF totalPRs = 0 THEN 0
  ELSE roundToTwoDecimals(totalComments, totalPRs)

\* the inner loop over comment.reactions[1..n], on the two counters
RECURSIVE countReactionsOf(_, _, _)
countReactionsOf(reactions, n, counts) ==
  IF n = 0 THEN counts
  ELSE LET before == countReactionsOf(reactions, n - 1, counts)
       IN IF isPositiveReaction(reactions[n].type)
          THEN [before EXCEPT !.positiveReactions = @ + 1]
          ELSE IF isNegativeReaction(reactions[n].type)
               THEN [before EXCEPT !.negativeReactions = @ + 1]
               ELSE before

\* the outer loop over comments[1..n]
RECURSIVE countReactionsUpTo(_, _)
countReactionsUpTo(batch, n) ==
  IF n = 0 THEN [positiveReactions |-> 0, negativeReactions |-> 0]
  ELSE countReactionsOf(batch[n].reactions, Len(batch[n].reactions),
                        countReactionsUpTo(batch, n - 1))

countReactionsByType(batch) == countReactionsUpTo(batch, Len(batch))

countRepliedComments(batch) ==
  Len(SelectSeq(batch, LAMBDA comment : Len(comment.replies) > 0))

countResolvedComments(batch) ==
  Len(SelectSeq(batch, LAMBDA comment : comment.isResolved))

createEmptyMetricsSummary ==
  [totalPRs |-> 0, totalComments |-> 0, averageCommentsPerPR |-> 0,
   positiveReactions |-> 0, negativeReactions |-> 0,
   repliedComments |-> 0, resolvedComments |-> 0]

\* mutant: the early return for an empty prs list missing
calculateSummary_noEmptyGuard(pullRequests, batch) ==
  LET totalPRs == countPullRequests(pullRequests)
      totalComments == countComments(batch)
      counts == countReactionsByType(batch)
  IN [totalPRs |-> totalPRs,
      totalComments |-> totalComments,
      averageCommentsPerPR |->
        calculateAverageCommentsPerPR(totalComments, totalPRs),
      positiveReactions |-> counts.positiveReactions,
      negativeReactions |-> counts.negativeReactions,
      repliedComments |-> countRepliedComments(batch),
      resolvedComments |-> countResolvedComments(batch)]

calculateSummary(pullRequests, batch) ==
  IF Len(pullRequests) = 0
  THEN createEmptyMetricsSummary
  ELSE LET totalPRs == countPullRequests(pullRequests)
           totalComments == countComments(batch)
           counts == countReactionsByType(batch)
       IN [totalPRs |-> totalPRs,
           totalComments |-> totalComments,
           averageCommentsPerPR |->
             calculateAverageCommentsPerPR(totalComments, totalPRs),
           positiveReactions |-> counts.positiveReactions,
           negativeReactions |-> counts.negativeReactions,
           repliedComments |-> countRepliedComments(batch),
           resolvedComments |-> countResolvedComments(batch)]

----------------------------------------------------------------------------
(***************************************************************************)
(* Numbers of calculateAverages, calculatePercentages and handleEdgeCases: *)
(* IEEE doubles.  A number is NaN, +Infinity, -Infinity or a finite value  *)
(* num / den (den > 0) of magnitude at most MaxValue, the largest finite   *)
(* double scaled down; an operation whose exact result is beyond MaxValue  *)
(* gives the infinity of its sign.  MaxValue leaves room for the hundredths *)
(* of a percentage of small operands, as the doubles do.  Rounding to the  *)
(* nearest double is not modelled.                                         *)
(***************************************************************************)
NaN == [kind |-> "NaN", num |-> 0, den |-> 1]
PositiveInfinity == [kind |-> "Infinity", num |-> 0, den |-> 1]
NegativeInfinity == [kind |-> "-Infinity", num |-> 0, den |-> 1]

integer(k) == [kind |-> "finite", num |-> k, den |-> 1]

isNaN(x) == x.kind = "NaN"
isFinite(x) == x.kind = "finite"

\* the double for the exact value num / den, den > 0
double(num, den) ==
  LET beyond(n) == n \div den > MaxValue
                     \/ (n \div den = MaxValue /\ n % den # 0)
  IN IF beyond(num) THEN PositiveInfinity
     ELSE IF beyond(0 - num) THEN NegativeInfinity
     ELSE [kind |-> "finite", num |-> num, den |-> den]

\* x + y
plus(x, y) ==
  IF isNaN(x) \/ isNaN(y) THEN NaN
  ELSE IF isFinite(x) /\ isFinite(y)
       THEN double(x.num * y.den + y.num * x.den, x.den * y.den)
  ELSE IF isFinite(x) THEN y
  ELSE IF isFinite(y) \/ x = y THEN x
  ELSE NaN

\* x < 0
isNegative(x) == x = NegativeInfinity \/ (isFinite(x) /\ x.num < 0)

\* x === 0
isZero(x) == isFinite(x) /\ x.num = 0

negate(x) ==
  IF x = PositiveInfinity THEN NegativeInfinity
  ELSE IF x = NegativeInfinity THEN PositiveInfinity
  ELSE [x EXCEPT !.num = 0 - @]

\* x / y
dividedBy(x, y) ==
  IF isNaN(x) \/ isNaN(y) THEN NaN
  ELSE IF ~isFinite(x) /\ ~isFinite(y) THEN NaN
  ELSE IF ~isFinite(x) THEN (IF isNegative(y) THEN negate(x) ELSE x)
  ELSE IF ~isFinite(y) THEN integer(0)
  ELSE IF isZero(y)
       THEN (IF isZero(x) THEN NaN
             ELSE IF isNegative(x) THEN NegativeInfinity ELSE PositiveInfinity)
  ELSE IF y.num > 0 THEN double(x.num * y.den, x.den * y.num)
  ELSE double((0 - x.num) * y.den, x.den * (0 - y.num))

\* x * 100
times100(x) == IF isFinite(x) THEN double(100 * x.num, x.den) ELSE x

\* Math.round(x): the nearest integer, halves towards +Infinity
mathRound(x) ==
  IF isFinite(x) THEN integer((2 * x.num + x.den) \div (2 * x.den)) ELSE x

\* Math.round(value * 100) / 100
roundToTwoDecimalsNumber(value) ==
  dividedBy(mathRound(times100(value)), integer(100))

handleEdgeCases(value) ==
  IF isNaN(value) THEN integer(0)
  ELSE IF ~isFinite(value) THEN integer(0)
  ELSE roundToTwoDecimalsNumber(value)

\* data.reduce((acc, value) => acc + (isNaN(value) ? 0 : value), 0) on the
\* first n entries
RECURSIVE sumUpTo(_, _)
sumUpTo(data, n) ==
  IF n = 0 THEN integer(0)
  ELSE plus(sumUpTo(data, n - 1), IF isNaN(data[n]) THEN integer(0) ELSE data[n])

calculateAverages(data) ==
  IF Len(data) = 0 THEN integer(0)
  ELSE handleEdgeCases(dividedBy(sumUpTo(data, Len(data)), integer(Len(data))))

\* mutant: the test for negative operands missing
calculatePercentages_noNegativeTest(numerator, denominator) ==
  IF isZero(denominator) THEN integer(0)
  ELSE handleEdgeCases(times100(dividedBy(numerator, denominator)))

calculatePercentages(numerator, denominator) ==
  IF isZero(denominator) THEN integer(0)
  ELSE IF isNegative(numerator) \/ isNegative(denominator) THEN integer(0)
  ELSE handleEdgeCases(times100(dividedBy(numerator, denominator)))

----------------------------------------------------------------------------
(***************************************************************************)
(* MetricsCalculator.calculateDetailed.  A Record<string, number> is a     *)
(* function from the keys set so far to their counts; a template string is *)
(* the tuple of its pieces.                                                *)
(***************************************************************************)
emptyBreakdown == [key \in {} |-> 0]

\* breakdown[key] = (breakdown[key] || 0) + 1
increment(breakdown, key) ==
  IF key \in DOMAIN breakdown
  THEN [breakdown EXCEPT ![key] = @ + 1]
  ELSE breakdown @@ (key :> 1)

RECURSIVE calculatePRsByStateUpTo(_, _)
calculatePRsByStateUpTo(pullRequests, n) ==
  IF n = 0 THEN emptyBreakdown
  ELSE increment(calculatePRsByStateUpTo(pullRequests, n - 1), pullRequests[n].state)

calculatePRsByState(pullRequests) ==
  calculatePRsByStateUpTo(pullRequests, Len(pullRequests))

RECURSIVE calculatePRsByAuthorUpTo(_, _)
calculatePRsByAuthorUpTo(pullRequests, n) ==
  IF n = 0 THEN emptyBreakdown
  ELSE increment(calculatePRsByAuthorUpTo(pullRequests, n - 1),
                 pullRequests[n].author.login)

calculatePRsByAuthor(pullRequests) ==
  calculatePRsByAuthorUpTo(pullRequests, Len(pullRequests))

\* mutant: with_replies counts the replies, not the comments that have some
RECURSIVE calculateCommentsByTypeUpTo_countsReplies(_, _)
calculateCommentsByTypeUpTo_countsReplies(batch, n) ==
  IF n = 0
  THEN [with_reactions |-> 0, with_replies |-> 0, resolved |-> 0, unresolved |-> 0]
  ELSE LET before == calculateCommentsByTypeUpTo_countsReplies(batch, n - 1)
           comment == batch[n]
       IN [with_reactions |->
             before.with_reactions + (IF Len(comment.reactions) > 0 THEN 1 ELSE 0),
           with_replies |-> before.with_replies + Len(comment.replies),
           resolved |-> before.resolved + (IF comment.isResolved THEN 1 ELSE 0),
           unresolved |-> before.unresolved + (IF comment.isResolved THEN 0 ELSE 1)]

RECURSIVE calculateCommentsByTypeUpTo(_, _)
calculateCommentsByTypeUpTo(batch, n) ==
  IF n = 0
  THEN [with_reactions |-> 0, with_replies |-> 0, resolved |-> 0, unresolved |-> 0]
  ELSE LET before == calculateCommentsByTypeUpTo(batch, n - 1)
           comment == batch[n]
       IN [with_reactions |->
             before.with_reactions + (IF Len(comment.reactions) > 0 THEN 1 ELSE 0),
           with_replies |->
             before.with_replies + (IF Len(comment.replies) > 0 THEN 1 ELSE 0),
           resolved |-> before.resolved + (IF comment.isResolved THEN 1 ELSE 0),
           unresolved |-> before.unresolved + (IF comment.isResolved THEN 0 ELSE 1)]

calculateCommentsByType(batch) == calculateCommentsByTypeUpTo(batch, Len(batch))

RECURSIVE calculateCommentsByResolutionUpTo(_, _)
calculateCommentsByResolutionUpTo(batch, n) ==
  IF n = 0 THEN [resolved |-> 0, unresolved |-> 0]
  ELSE LET before == calculateCommentsByResolutionUpTo(batch, n - 1)
       IN IF batch[n].isResolved
          THEN [before EXCEPT !.resolved = @ + 1]
          ELSE [before EXCEPT !.unresolved = @ + 1]

calculateCommentsByResolution(batch) ==
  calculateCommentsByResolutionUpTo(batch, Len(batch))

\* the inner loop over comment.reactions[1..n]
RECURSIVE tallyReactionsOf(_, _, _)
tallyReactionsOf(reactions, n, breakdown) ==
  IF n = 0 THEN breakdown
  ELSE increment(tallyReactionsOf(reactions, n - 1, breakdown), reactions[n].type)

RECURSIVE calculateReactionsByTypeUpTo(_, _)
calculateReactionsByTypeUpTo(batch, n) ==
  IF n = 0 THEN emptyBreakdown
  ELSE tallyReactionsOf(batch[n].reactions, Len(batch[n].reactions),
                        calculateReactionsByTypeUpTo(batch, n - 1))

calculateReactionsByType(batch) == calculateReactionsByTypeUpTo(batch, Len(batch))

calculatePositiveVsNegativeReactions(batch) ==
  LET counts == countReactionsByType(batch)
  IN [positive |-> counts.positiveReactions, negative |-> counts.negativeReactions]

UndefinedRepository == "UNDEFINED"
defaultRepository == "owner/repo"

\* mutant: every attached comment counted as resolved
prDetailsOf_allResolved(pr, repositoryName) ==
  LET prComments == pr.comments
      counts == countReactionsByType(prComments)
  IN [number |-> pr.number,
      title |-> pr.title,
      url |-> <<"https://github.com/", repositoryName, "/pull/", pr.number>>,
      totalComments |-> Len(prComments),
      aiComments |-> Len(prComments),
      resolvedAiComments |-> Len(prComments),
      positiveReactions |-> counts.positiveReactions,
      negativeReactions |-> counts.negativeReactions]

\* the row that the callback of prs.map builds; its two reaction counters run
\* the loops of countReactionsByType over pr.comments
prDetailsOf(pr, repositoryName) ==
  LET prComments == pr.comments
      counts == countReactionsByType(prComments)
  IN [number |-> pr.number,
      title |-> pr.title,
      url |-> <<"https://github.com/", repositoryName, "/pull/", pr.number>>,
      totalComments |-> Len(prComments),
      aiComments |-> Len(prComments),
      resolvedAiComments |->
        Len(SelectSeq(prComments, LAMBDA comment : comment.isResolved)),
      positiveReactions |-> counts.positiveReactions,
      negativeReactions |-> counts.negativeReactions]

calculatePRDetails(pullRequests, repositoryName) ==
  [i \in 1..Len(pullRequests) |-> prDetailsOf(pullRequests[i], repositoryName)]

\* for (const pr of prs) and for (const comment of comments) raise a
\* TypeError on null and on undefined
calculateDetailedThrows(missingArguments) ==
  "prs" \in missingArguments \/ "comments" \in missingArguments

calculateDetailed(pullRequests, batch, repositoryName) ==
  [prBreakdown |->
     [byState |-> calculatePRsByState(pullRequests),
      byAuthor |-> calculatePRsByAuthor(pullRequests)],
   commentBreakdown |->
     [byType |-> calculateCommentsByType(batch),
      byResolution |-> calculateCommentsByResolution(batch)],
   reactionBreakdown |->
     [byType |-> calculateReactionsByType(batch),
      positiveVsNegative |-> calculatePositiveVsNegativeReactions(batch)],
   prDetails |->
     calculatePRDetails(pullRequests,
       IF repositoryName = UndefinedRepository THEN defaultRepository
       ELSE repositoryName)]

----------------------------------------------------------------------------
(***************************************************************************)
(* GitHubClient.authenticate.  An authenticate call waits for the API      *)
(* twice at most: for the installation token (GitHub App) and for the      *)
(* answer to GET /user.                                                    *)
(***************************************************************************)
personalToken == "ghp_personal"
installationToken == "ghs_installation"
privateKey == "PEM_PRIVATE_KEY"

NoApp == [appId |-> "", privateKey |-> "", installationId |-> ""]

NoAuthConfig == [type |-> "none", token |-> "", app |-> NoApp]

\* the first stretch of authenticate, up to its first await: "threw" when
\* it raises before any request, else the request it waits for
authenticateStart(config) ==
  IF config.type = "token"
  THEN IF config.token = "" THEN "threw" ELSE "user"
  ELSE IF config.type = "app"
       THEN IF config.app = NoApp THEN "threw" ELSE "installation"
       ELSE "threw"

\* the Authorization header of this.client after that stretch
authorizationAtStart(config, header) ==
  IF authenticateStart(config) = "user" THEN <<"token", config.token>> ELSE header

\* mutant: the catch block without its assignment
authenticatedAfterFailure_keeps(flag) == flag

\* this.authenticated = false in the catch block
authenticatedAfterFailure(flag) == FALSE

----------------------------------------------------------------------------
(***************************************************************************)
(* DataCollector.collectComments.  What getComments answers for one pull   *)
(* request is [failed, comments]: the call raises, or returns the          *)
(* comments.                                                               *)
(***************************************************************************)
UndefinedLogin == <<"UNDEFINED">>

RECURSIVE trimStart(_)
trimStart(s) == IF s # <<>> /\ Head(s) = " " THEN trimStart(Tail(s)) ELSE s

RECURSIVE trimEnd(_)
trimEnd(s) ==
  IF s # <<>> /\ s[Len(s)] = " " THEN trimEnd(SubSeq(s, 1, Len(s) - 1)) ELSE s

trim(s) == trimEnd(trimStart(s))

\* comment.author.login.trim() on a comment without login
parseCommentMetadataThrows(comment) == comment.author.login = UndefinedLogin

\* new Date(date) keeps the time value; reactions and replies are arrays
\* already
parseCommentMetadata(comment) == [comment EXCEPT !.author.login = trim(@)]

\* mutant: the logins compared as they are
isReviewerComment_caseSensitive(comment, reviewerUserName) ==
  comment.author.login = reviewerUserName

isReviewerComment(comment, reviewerUserName) ==
  toLowerCase(comment.author.login) = toLowerCase(reviewerUserName)

\* mutant: a pull request whose processing fails gets an empty comments field
processPullRequest_clearsOnFailure(reply, reviewerUserName) ==
  IF \/ reply.failed
     \/ \E i \in 1..Len(reply.comments) : parseCommentMetadataThrows(reply.comments[i])
  THEN [failed |-> FALSE, comments |-> <<>>]
  ELSE LET parsedComments ==
             [i \in 1..Len(reply.comments) |-> parseCommentMetadata(reply.comments[i])]
           reviewerComments ==
             SelectSeq(parsedComments,
                       LAMBDA comment : isReviewerComment(comment, reviewerUserName))
       IN IF enhanceCommentMetadataThrows(reviewerComments)
          THEN [failed |-> FALSE, comments |-> <<>>]
          ELSE [failed |-> FALSE,
                comments |-> enhanceCommentMetadata(reviewerComments)]

\* the try block of the loop body: failed when it raises, which it does
\* before it pushes or assigns anything
processPullRequest(reply, reviewerUserName) ==
  IF \/ reply.failed
     \/ \E i \in 1..Len(reply.comments) : parseCommentMetadataThrows(reply.comments[i])
  THEN [failed |-> TRUE, comments |-> <<>>]
  ELSE LET parsedComments ==
             [i \in 1..Len(reply.comments) |-> parseCommentMetadata(reply.comments[i])]
           reviewerComments ==
             SelectSeq(parsedComments,
                       LAMBDA comment : isReviewerComment(comment, reviewerUserName))
       IN IF enhanceCommentMetadataThrows(reviewerComments)
          THEN [failed |-> TRUE, comments |-> <<>>]
          ELSE [failed |-> FALSE,
                comments |-> enhanceCommentMetadata(reviewerComments)]

\* the loop over the first n pull requests: allComments, and the pull
\* requests with the comments attached so far
RECURSIVE collectCommentsUpTo(_, _, _, _)
collectCommentsUpTo(pullRequests, replies, reviewerUserName, n) ==
  IF n = 0
  THEN [allComments |-> <<>>, prs |-> pullRequests]
  ELSE LET before == collectCommentsUpTo(pullRequests, replies, reviewerUserName, n - 1)
           done == processPullRequest(replies[n], reviewerUserName)
       IN IF done.failed
          THEN before
          ELSE [allComments |-> before.allComments \o done.comments,
                prs |-> [before.prs EXCEPT ![n].comments = done.comments]]

\* mutant: the comments are returned and not attached
collectComments_noAttach(pullRequests, replies, reviewerUserName) ==
  [allComments |->
     collectCommentsUpTo(pullRequests, replies, reviewerUserName,
                         Len(pullRequests)).allComments,
   prs |-> pullRequests]

collectComments(pullRequests, replies, reviewerUserName) ==
  collectCommentsUpTo(pullRequests, replies, reviewerUserName, Len(pullRequests))

----------------------------------------------------------------------------
(***************************************************************************)
(* GitHubClient.getPullRequests and DataCollector.collectPullRequests.     *)
(* The API lists the pulls sorted by updated_at, latest first, perPage to  *)
(* a page; a time is the number new Date(...) gives for it.                *)
(***************************************************************************)
pageLimit == 100
perPage == 2

convertPullRequest(pr) ==
  [number |-> pr.number, title |-> pr.title, state |-> pr.state,
   author |-> [login |-> pr.user.login], createdAt |-> pr.created_at,
   updatedAt |-> pr.updated_at, comments |-> <<>>]

\* the pulls of the pages the loop can ask for
withinPageLimit(pulls) ==
  SubSeq(pulls, 1, IF Len(pulls) < pageLimit * perPage
                   THEN Len(pulls) ELSE pageLimit * perPage)

\* the two loops over the first n pulls listed: stopped when the return
\* inside the for loop was taken
RECURSIVE scanPullsUpTo(_, _, _)
scanPullsUpTo(pulls, timePeriod, n) ==
  IF n = 0
  THEN [stopped |-> FALSE, pullRequests |-> <<>>]
  ELSE LET before == scanPullsUpTo(pulls, timePeriod, n - 1)
           createdAt == pulls[n].created_at
       IN IF before.stopped
          THEN before
          ELSE IF createdAt < timePeriod.start
               THEN [stopped |-> TRUE, pullRequests |-> before.pullRequests]
               ELSE IF createdAt >= timePeriod.start /\ createdAt <= timePeriod.end
                    THEN [stopped |-> FALSE,
                          pullRequests |->
                            Append(before.pullRequests, convertPullRequest(pulls[n]))]
                    ELSE before

getPullRequests(pulls, timePeriod) ==
  scanPullsUpTo(withinPageLimit(pulls), timePeriod,
                Len(withinPageLimit(pulls))).pullRequests

\* the number of pages getPullRequests asks for: up to the page of the pull
\* it returns at, else up to the first empty page or the page limit
pagesRequested(pulls, timePeriod) ==
  LET reach == withinPageLimit(pulls)
      stops == {n \in 1..Len(reach) : reach[n].created_at < timePeriod.start}
  IN IF stops # {}
     THEN ((CHOOSE n \in stops : \A m \in stops : n <= m) - 1) \div perPage + 1
     ELSE IF Len(pulls) \div perPage + 1 < pageLimit
          THEN Len(pulls) \div perPage + 1 ELSE pageLimit

\* mutant: the collector trusts the client
collectPullRequests_noFilter(pullRequests, timePeriod) == pullRequests

collectPullRequests(pullRequests, timePeriod) ==
  SelectSeq(pullRequests,
            LAMBDA pr : pr.createdAt >= timePeriod.start
                          /\ pr.createdAt <= timePeriod.end)

----------------------------------------------------------------------------
(***************************************************************************)
(* DataStorage.saveCollectedData / loadCollectedData.  A timestamp field   *)
(* holds [type, time]: a Date, the ISO-8601 string JSON.stringify writes   *)
(* for a Date (Date.prototype.toJSON), or undefined.  A stored record      *)
(* keeps its id and its timestamps; a reply is a comment.                  *)
(***************************************************************************)
date(time) == [type |-> "Date", time |-> time]
isoString(time) == [type |-> "string", time |-> time]
undefinedDate == [type |-> "undefined", time |-> 0]
invalidDate == [type |-> "Invalid Date", time |-> 0]

NoFile == [metadata |-> [totalPRs |-> -1, totalComments |-> -1],
           pullRequests |-> <<>>, comments |-> <<>>]

\* JSON.stringify of a property value that is a Date or undefined (the
\* property is left out, and reads as undefined after JSON.parse)
stringifyDate(value) ==
  IF value.type = "Date" THEN isoString(value.time) ELSE value

\* new Date(value)
newDate(value) ==
  IF value.type = "string" \/ value.type = "Date"
  THEN date(value.time) ELSE invalidDate

stringifyReaction(reaction) ==
  [reaction EXCEPT !.createdAt = stringifyDate(@)]

stringifyReply(reply) ==
  [reply EXCEPT
     !.createdAt = stringifyDate(@), !.updatedAt = stringifyDate(@),
     !.reactions = [k \in 1..Len(@) |-> stringifyReaction(@[k])]]

stringifyComment(comment) ==
  [comment EXCEPT
     !.createdAt = stringifyDate(@), !.updatedAt = stringifyDate(@),
     !.reactions = [k \in 1..Len(@) |-> stringifyReaction(@[k])],
     !.replies = [k \in 1..Len(@) |-> stringifyReply(@[k])]]

stringifyPullRequest(pr) ==
  [pr EXCEPT
     !.createdAt = stringifyDate(@), !.updatedAt = stringifyDate(@),
     !.mergedAt = stringifyDate(@),
     !.comments = [k \in 1..Len(@) |-> stringifyComment(@[k])]]

\* what JSON.parse reads back from the file saveCollectedData wrote
saveCollectedData(pullRequests, batch) ==
  [metadata |-> [totalPRs |-> Len(pullRequests), totalComments |-> Len(batch)],
   pullRequests |-> [k \in 1..Len(pullRequests) |-> stringifyPullRequest(pullRequests[k])],
   comments |-> [k \in 1..Len(batch) |-> stringifyComment(batch[k])]]

\* the map over data.pullRequests
loadPullRequest(pr) ==
  [pr EXCEPT
     !.createdAt = newDate(@), !.updatedAt = newDate(@),
     !.mergedAt = IF @.type = "undefined" THEN undefinedDate ELSE newDate(@)]

\* the map over data.comments
loadComment(comment) ==
  [comment EXCEPT
     !.createdAt = newDate(@), !.updatedAt = newDate(@),
     !.reactions = [k \in 1..Len(@) |-> [@[k] EXCEPT !.createdAt = newDate(@)]],
     !.replies = [k \in 1..Len(@) |->
                    [@[k] EXCEPT !.createdAt = newDate(@), !.updatedAt = newDate(@)]]]

loadCollectedData(data) ==
  [prs |-> [k \in 1..Len(data.pullRequests) |-> loadPullRequest(data.pullRequests[k])],
   comments |-> [k \in 1..Len(data.comments) |-> loadComment(data.comments[k])]]

----------------------------------------------------------------------------
(***************************************************************************)
(* ConfigurationManager.loadConfig and the start of runCompleteWorkflow.   *)
(* A repository name owner/repo is the tuple of its pieces between the     *)
(* slashes; an environment variable that is not set reads "" (every read   *)
(* is of the form process.env.X || '').  The analysis period is the        *)
(* default one, start before end.                                          *)
(***************************************************************************)
noEnvironment ==
  [GITHUB_REPOSITORY |-> <<>>, GITHUB_REPOSITORY_OWNER |-> "",
   GITHUB_REPOSITORY_NAME |-> "", GITHUB_TOKEN |-> "", REVIEWER_USERNAME |-> ""]

noConfig ==
  [repository |-> [owner |-> "", repo |-> ""],
   auth |-> [type |-> "token", token |-> ""],
   analysis |-> [reviewerUserName |-> ""]]

defaultReviewerUserName == "DEFAULT_REVIEWER_NAME"

\* the fields validateConfig reports, in its order
validateConfig(appConfig) ==
  (IF appConfig.repository.owner = "" THEN <<"repository.owner">> ELSE <<>>)
    \o (IF appConfig.repository.repo = "" THEN <<"repository.repo">> ELSE <<>>)
    \o (IF appConfig.auth.type = "token" /\ appConfig.auth.token = ""
        THEN <<"auth.token">> ELSE <<>>)
    \o (IF appConfig.analysis.reviewerUserName = ""
        THEN <<"analysis.reviewerUserName">> ELSE <<>>)

\* the configuration loadConfig builds from the environment
buildConfig(environment) ==
  [repository |-> [owner |-> environment.GITHUB_REPOSITORY_OWNER,
                   repo |-> environment.GITHUB_REPOSITORY_NAME],
   auth |-> [type |-> "token", token |-> environment.GITHUB_TOKEN],
   analysis |->
     [reviewerUserName |-> IF environment.REVIEWER_USERNAME # ""
                           THEN environment.REVIEWER_USERNAME
                           ELSE defaultReviewerUserName]]

loadConfigThrows(environment) == validateConfig(buildConfig(environment)) # <<>>

\* options.repository.split('/') and the test that follows it
workflowThrowsOnRepository(options) ==
  \/ Len(options.repository) < 2
  \/ options.repository[1] = "" \/ options.repository[2] = ""

\* the environment runCompleteWorkflow leaves for loadConfig
workflowEnvironment(environment, options) ==
  [environment EXCEPT
     !.GITHUB_REPOSITORY = options.repository,
     !.REVIEWER_USERNAME = options.reviewerUsername,
     !.GITHUB_TOKEN = IF options.githubToken # "" THEN options.githubToken ELSE @]

----------------------------------------------------------------------------
(***************************************************************************)
(* GitHubClient.getPaginatedData and the response interceptor.             *)
(***************************************************************************)
maxRetries == 3

RECURSIVE exponentialBackoff(_)
\* Math.pow(2, retryCount) * 1000
exponentialBackoff(count) ==
  IF count = 0 THEN 1000 ELSE 2 * exponentialBackoff(count - 1)

\* the loop of getPaginatedData after a page of length items: done on an
\* empty page and once the page limit is passed
fetchGoesOn(length, nextPage) == length # 0 /\ nextPage <= pageLimit

----------------------------------------------------------------------------
(***************************************************************************)
(* GitHubClient.sanitizeErrorMessage and setupSecureLogging.  A message is *)
(* the sequence of its pieces: plain text, or a secret in full (a token,   *)
(* the PEM block of a private key, a JSON web token).                      *)
(***************************************************************************)
jsonWebToken == "eyJhbGciOi.eyJpc3MiOi.c2lnbmF0dXJl"

noOutput == [text |-> <<>>, credentials |-> {}]

\* the three replace calls on one piece
sanitizePiece(piece, configuration) ==
  LET withoutToken ==
        IF /\ configuration.type = "token"
           /\ configuration.token # ""
           /\ piece = configuration.token
        THEN "[REDACTED_TOKEN]" ELSE piece
      withoutKey ==
        IF /\ configuration.type = "app"
           /\ configuration.app.privateKey # ""
           /\ withoutToken = privateKey
        THEN "[REDACTED_PRIVATE_KEY]" ELSE withoutToken
  IN IF withoutKey = jsonWebToken THEN "[REDACTED_JWT]" ELSE withoutKey

sanitizeErrorMessage(message, configuration) ==
  IF configuration = NoAuthConfig
  THEN message
  ELSE [k \in 1..Len(message) |-> sanitizePiece(message[k], configuration)]

\* one argument of the console methods: only strings are sanitized
sanitizeArgument(argument, configuration) ==
  IF argument.isString
  THEN sanitizeErrorMessage(argument.text, configuration)
  ELSE argument.text

\* the credentials the client holds: the personal token of its
\* configuration, or the installation token it obtained for its GitHub App
credentialsHeld(configuration, header) ==
  (IF configuration.type = "token" /\ configuration.token # ""
   THEN {configuration.token} ELSE {})
    \cup (IF configuration.type = "app" /\ header = <<"token", installationToken>>
          THEN {installationToken} ELSE {})

----------------------------------------------------------------------------
(***************************************************************************)
(* Inputs.  A raw comment as the client hands it over (convertComment):    *)
(* isResolved false, replies empty.                                        *)
(***************************************************************************)
Bodies ==
  { <<"L","G","T","M">>,
    <<"[","r","e","s","o","l","v","e","d","]">>,
    <<"[","R","E","S","O","L","V","E","D","]">>,
    <<"o","k"," ","CHECK">>,
    <<"A","d","d","r","e","s","s","e","d"," ","i","n"," ",
      "c","o","m","m","i","t"," ","a","b","c","1","2","3">>,
    <<"F","i","x","e","d">>,
    <<"d","o","n","e">>,
    <<"C","o","m","p","l","e","t","e","d">>,
    <<"r","e","s","o","l","v","e","d">>,
    UndefinedBody }

\* reaction.type values that reach the collector: the eight kinds and
\* 'unknown' (mapReactionType), a raw API marker and an invalid type
ReactionTypes ==
  validTypes \cup {"unknown", "+1", "invalid_type"}

RECURSIVE SeqsUpTo(_, _)
SeqsUpTo(S, n) ==
  IF n = 0 THEN {<<>>}
  ELSE LET shorter == SeqsUpTo(S, n - 1)
       IN shorter \cup {Append(s, x) : s \in {t \in shorter : Len(t) = n - 1}, x \in S}

ReactionLists == SeqsUpTo([type : ReactionTypes], MaxReactions)

rawComment(id, body, createdAt, updatedAt, reactions, inReplyToId) ==
  [id |-> id, body |-> body, createdAt |-> createdAt, updatedAt |-> updatedAt,
   reactions |-> reactions, inReplyToId |-> inReplyToId,
   isResolved |-> FALSE, replies |-> <<>>]

plainBody == <<"L","G","T","M">>

BatchShapes ==
  [body : {plainBody}, createdAt : 1..MaxTime]
    \cup {[body |-> plainBody, createdAt |-> NotADate],
          [body |-> UndefinedBody, createdAt |-> 1]}

\* the reaction contents the API returns for one comment
SummaryReactionContents ==
  { <<>>,
    <<"+1", "+1", "-1", "bogus">>,
    <<"heart", "hooray", "rocket">>,
    <<"confused", "laugh", "eyes">> }

\* a processed comment: reactions as the client converted them, resolution
\* status and replies set
processedComment(id, contents, isResolved, replies) ==
  [rawComment(id, plainBody, 1, 1, convertReactions(contents), 0)
     EXCEPT !.isResolved = isResolved, !.replies = replies]

\* the replies of the processed comment id: none, one or two
SummaryReplyLists(id) ==
  { <<>>,
    <<rawComment(id + 1, plainBody, 2, 2, <<>>, id)>>,
    <<rawComment(id + 1, plainBody, 2, 2, <<>>, id),
      rawComment(id + 2, plainBody, 2, 2, <<>>, id)>> }

\* a pull request as convertPullRequest builds it, with the comments that
\* collectComments attached to it
PullRequestShapes ==
  { [state |-> "open", author |-> [login |-> "alice"], title |-> "Add parser",
     comments |-> <<>>],
    [state |-> "closed", author |-> [login |-> "bob"], title |-> "Fix build",
     comments |-> << processedComment(101, <<"+1", "+1", "-1", "bogus">>, TRUE, <<>>),
                     processedComment(102, <<"heart">>, FALSE, <<>>) >>],
    [state |-> "merged", author |-> [login |-> "alice"], title |-> "Update docs",
     comments |-> << processedComment(103, <<"confused">>, TRUE, <<>>) >>] }

\* the repository argument of calculateDetailed: left out, or owner/name
Repositories == {UndefinedRepository, "acme/widgets"}

\* the numbers a caller passes
NumberInputs ==
  {NaN, PositiveInfinity, NegativeInfinity}
    \cup {integer(k) : k \in {-1, 0, 1, 2, 3, MaxValue}}

noDetailed ==
  [prBreakdown |-> [byState |-> emptyBreakdown, byAuthor |-> emptyBreakdown],
   commentBreakdown |->
     [byType |-> [with_reactions |-> 0, with_replies |-> 0,
                  resolved |-> 0, unresolved |-> 0],
      byResolution |-> [resolved |-> 0, unresolved |-> 0]],
   reactionBreakdown |->
     [byType |-> emptyBreakdown,
      positiveVsNegative |-> [positive |-> 0, negative |-> 0]],
   prDetails |-> <<>>]

\* the configurations handed to authenticate: a personal token, no token,
\* a GitHub App, a type the client does not know
AuthConfigs ==
  { [type |-> "token", token |-> personalToken, app |-> NoApp],
    [type |-> "token", token |-> "", app |-> NoApp],
    [type |-> "app", token |-> "",
     app |-> [appId |-> "12345", privateKey |-> privateKey,
              installationId |-> "67890"]],
    [type |-> "oauth", token |-> "", app |-> NoApp] }

noCalls ==
  [getPullRequests |-> "pending", getComments |-> "pending",
   collectPullRequests |-> "pending", collectComments |-> "pending"]

noRequests ==
  [authenticate |-> 0, getPullRequests |-> 0, getComments |-> 0,
   collectPullRequests |-> 0, collectComments |-> 0]

\* the time periods a caller configures: start before end
Periods ==
  {timePeriod \in [start : 0..MaxPullTime, end : 0..MaxPullTime] :
     timePeriod.start < timePeriod.end}

noPeriod == [start |-> 0, end |-> 0]

\* a pull of the listing: number, created_at, updated_at and what else
\* convertPullRequest reads
listedPull(number, created_at, updated_at) ==
  [number |-> number, title |-> "Add parser", state |-> "open",
   user |-> [login |-> "alice"], created_at |-> created_at,
   updated_at |-> updated_at]

\* a comment as getComments returns it
fetchedComment(id, login, inReplyToId) ==
  [id |-> id, body |-> plainBody, createdAt |-> 1, updatedAt |-> 1,
   reactions |-> convertReactions(<<"+1">>), inReplyToId |-> inReplyToId,
   isResolved |-> FALSE, replies |-> <<>>, author |-> [login |-> login]]

reviewerLogin == <<"d","e","v">>
otherLogin == <<"t","e","d">>

\* the reviewer names a caller passes: the login, and the login in capitals
Reviewers == {reviewerLogin, <<"D","E","V">>}

\* what getComments answers for the pull request whose comment ids start
\* after base: a failure, no comment, comments of the reviewer (login in
\* any letter case) and of somebody else, a reviewer comment with its reply,
\* a comment without author login
ServedReplies(base) ==
  { [failed |-> TRUE, comments |-> <<>>],
    [failed |-> FALSE, comments |-> <<>>],
    [failed |-> FALSE,
     comments |-> << fetchedComment(base + 1, reviewerLogin, 0),
                     fetchedComment(base + 2, otherLogin, 0) >>],
    [failed |-> FALSE,
     comments |-> << fetchedComment(base + 1, <<"D","e","v">>, 0),
                     fetchedComment(base + 2, reviewerLogin, base + 1) >>],
    [failed |-> FALSE,
     comments |-> << fetchedComment(base + 1, otherLogin, 0),
                     fetchedComment(base + 2, <<"D","E","V">>, 0) >>],
    [failed |-> FALSE,
     comments |-> << fetchedComment(base + 1, reviewerLogin, 0),
                     fetchedComment(base + 2, UndefinedLogin, 0) >>] }

\* the comments field of a pull request that went through collectComments
\* before
staleComments(base) ==
  << [fetchedComment(base, reviewerLogin, 0) EXCEPT !.isResolved = TRUE] >>


\* the records saveCollectedData gets: every timestamp a Date
StoredReactionLists(time) ==
  {<<>>, <<[type |-> "heart", createdAt |-> date(time)]>>}

storedComment(id, time, reactions, replies) ==
  [id |-> id, createdAt |-> date(time), updatedAt |-> date(time),
   reactions |-> reactions, replies |-> replies]

StoredReplyLists(id, time) ==
  {<<>>} \cup
  {<<storedComment(id + 1, time, reactions, <<>>)>> :
     reactions \in StoredReactionLists(time)}

StoredComments(id) ==
  UNION {{storedComment(id, time, reactions, replies) :
            reactions \in StoredReactionLists(time),
            replies \in StoredReplyLists(id, time)} : time \in 1..MaxTime}


\* the values an environment variable is set to
EnvironmentValues ==
  [GITHUB_REPOSITORY |-> {<<"acme", "widgets">>, <<"acme">>},
   GITHUB_REPOSITORY_OWNER |-> {"octo"},
   GITHUB_REPOSITORY_NAME |-> {"gadgets"},
   GITHUB_TOKEN |-> {personalToken},
   REVIEWER_USERNAME |-> {"dev"}]

\* the options runCompleteWorkflow is called with
WorkflowOptions ==
  [repository : {<<"acme", "widgets">>, <<"acme">>},
   reviewerUsername : {"dev"},
   githubToken : {"", personalToken}]


\* the messages the program writes or raises: without secret, or quoting
\* one
Messages ==
  {<<"Bad credentials">>}
    \cup {<<"Request with ", secret, " failed">> :
            secret \in {personalToken, installationToken, privateKey, jsonWebToken}}


----------------------------------------------------------------------------
(***************************************************************************)
(* Actions.  An argument passed as null or undefined is named in missing,  *)
(* and its variable stays the empty list: every test of the form           *)
(* !x || x.length === 0 and x ? x.length : 0 takes both the same way, and   *)
(* every iteration over it raises.                                         *)
(***************************************************************************)
NothingComputed ==
  /\ comments = <<>>
  /\ outcome = "pending"
  /\ enhanced = <<>>
  /\ prs = <<>>
  /\ summary = createEmptyMetricsSummary
  /\ called = "none"
  /\ missing = {}
  /\ repository = UndefinedRepository
  /\ detailed = noDetailed
  /\ detailedOutcome = "pending"
  /\ operands = <<>>
  /\ result = integer(0)

\* no entry point of client or collector called yet
NothingCollected ==
  /\ callOutcome = noCalls
  /\ served = <<>>
  /\ reviewer = <<>>
  /\ previous = <<>>
  /\ listing = <<>>
  /\ period = noPeriod
  /\ pulled = <<>>
  /\ collected = <<>>
  /\ toSave = [prs |-> <<>>, comments |-> <<>>]
  /\ file = NoFile
  /\ loaded = [prs |-> <<>>, comments |-> <<>>]
  /\ loadOutcome = "pending"
  /\ env = noEnvironment
  /\ loadedConfig = noConfig
  /\ configOutcome = "pending"
  /\ configCall = "none"
  /\ written = noOutput
  /\ thrown = noOutput
  /\ page = 1
  /\ fetchStatus = "idle"
  /\ retryCount = 0
  /\ pageRequests = 0
  /\ delays = <<>>
  /\ received = 0

Init ==
  /\ NothingComputed
  /\ authenticated = FALSE
  /\ authConfig = NoAuthConfig
  /\ authorization = <<>>
  /\ inFlight = {}
  /\ completed = <<>>
  /\ authentications = 0
  /\ requests = noRequests
  /\ NothingCollected

\* the state of a run once its client is constructed and its authenticate
\* call with the personal token has succeeded
InitAuthenticated ==
  /\ NothingComputed
  /\ authenticated = TRUE
  /\ authConfig = [type |-> "token", token |-> personalToken, app |-> NoApp]
  /\ authorization = <<"token", personalToken>>
  /\ inFlight = {}
  /\ completed = <<"succeeded">>
  /\ authentications = 1
  /\ requests = [noRequests EXCEPT !.authenticate = 1]
  /\ NothingCollected

\* the caller passes a batch of one top-level comment: any body, any
\* reactions, updatedAt >= createdAt
ReceiveComment ==
  /\ outcome = "pending"
  /\ comments = <<>>
  /\ \E body \in Bodies, createdAt \in 1..MaxTime, reactions \in ReactionLists :
       \E updatedAt \in createdAt..MaxTime :
         comments' = <<rawComment(1, body, createdAt, updatedAt, reactions, 0)>>
  /\ UNCHANGED <<pipelineVars, outcome, enhanced, prs, summary, called, missing, repository,
                 detailed, detailedOutcome, operands, result>>

\* for (const comment of comments) in buildReplyMap raises on null
EnhanceCommentMetadata ==
  /\ outcome = "pending"
  /\ IF "comments" \in missing \/ enhanceCommentMetadataThrows(comments)
     THEN outcome' = "threw" /\ enhanced' = <<>>
     ELSE outcome' = "returned" /\ enhanced' = enhanceCommentMetadata(comments)
  /\ called' = "enhanceCommentMetadata"
  /\ UNCHANGED <<pipelineVars, comments, prs, summary, missing, repository, detailed,
                 detailedOutcome, operands, result>>

\* the caller adds one comment to the batch: its id is new, it may reply to
\* any other id (one of the batch or not), and it is well formed, or its
\* createdAt is no Date, or it has no body
ReceiveBatchComment ==
  /\ outcome = "pending"
  /\ Len(comments) < MaxBatch
  /\ \E inReplyToId \in 0..(MaxBatch + 1), shape \in BatchShapes :
       /\ inReplyToId # Len(comments) + 1
       /\ comments' = Append(comments,
            rawComment(Len(comments) + 1, shape.body, shape.createdAt,
                       shape.createdAt, <<>>, inReplyToId))
  /\ UNCHANGED <<pipelineVars, outcome, enhanced, prs, summary, called, missing, repository,
                 detailed, detailedOutcome, operands, result>>

\* the caller adds a pull request to the list it will pass
AddPullRequest ==
  /\ outcome = "pending"
  /\ "prs" \notin missing
  /\ Len(prs) < MaxPRs
  /\ \E shape \in PullRequestShapes :
       prs' = Append(prs,
         [number |-> Len(prs) + 1, title |-> shape.title, state |-> shape.state,
          author |-> shape.author, comments |-> shape.comments])
  /\ UNCHANGED <<pipelineVars, comments, outcome, enhanced, summary, called, missing,
                 repository, detailed, detailedOutcome, operands, result>>

\* the caller adds a processed comment to the list it will pass: reactions as
\* the client converted them, any resolution status, with or without replies
AddSummaryComment ==
  /\ outcome = "pending"
  /\ "comments" \notin missing
  /\ Len(comments) < MaxSummaryComments
  /\ LET id == 3 * Len(comments) + 1
     IN \E contents \in SummaryReactionContents, isResolved \in BOOLEAN,
           replies \in SummaryReplyLists(id) :
          comments' = Append(comments,
            processedComment(id, contents, isResolved, replies))
  /\ UNCHANGED <<pipelineVars, outcome, enhanced, prs, summary, called, missing, repository,
                 detailed, detailedOutcome, operands, result>>

\* the caller passes null / undefined for a collection
OmitArgument ==
  /\ outcome = "pending"
  /\ \E name \in {"prs", "comments"} \ missing :
       /\ name = "prs" => prs = <<>>
       /\ name = "comments" => comments = <<>>
       /\ missing' = missing \cup {name}
  /\ UNCHANGED <<pipelineVars, comments, outcome, enhanced, prs, summary, called, repository,
                 detailed, detailedOutcome, operands, result>>

CalculateSummary ==
  /\ outcome = "pending"
  /\ summary' = calculateSummary(prs, comments)
  /\ outcome' = "returned"
  /\ called' = "calculateSummary"
  /\ UNCHANGED <<pipelineVars, comments, enhanced, prs, missing, repository, detailed,
                 detailedOutcome, operands, result>>

\* the caller computes the detailed metrics after the summary, from the same
\* two lists
CalculateDetailed ==
  /\ called = "calculateSummary"
  /\ detailedOutcome = "pending"
  /\ \E repositoryName \in Repositories :
       /\ repository' = repositoryName
       /\ IF calculateDetailedThrows(missing)
          THEN detailedOutcome' = "threw" /\ detailed' = detailed
          ELSE /\ detailedOutcome' = "returned"
               /\ detailed' = calculateDetailed(prs, comments, repositoryName)
  /\ called' = "calculateDetailed"
  /\ UNCHANGED <<pipelineVars, comments, outcome, enhanced, prs, summary, missing, operands,
                 result>>

\* the caller adds a number to the ones it will pass
PushOperand ==
  /\ called = "none"
  /\ Len(operands) < MaxOperands
  /\ \E x \in NumberInputs : operands' = Append(operands, x)
  /\ UNCHANGED <<pipelineVars, comments, outcome, enhanced, prs, summary, called, missing,
                 repository, detailed, detailedOutcome, result>>

CalculateAverages ==
  /\ called = "none"
  /\ result' = calculateAverages(operands)
  /\ called' = "calculateAverages"
  /\ UNCHANGED <<pipelineVars, comments, outcome, enhanced, prs, summary, missing, repository,
                 detailed, detailedOutcome, operands>>

CalculatePercentages ==
  /\ called = "none"
  /\ Len(operands) = 2
  /\ result' = calculatePercentages(operands[1], operands[2])
  /\ called' = "calculatePercentages"
  /\ UNCHANGED <<pipelineVars, comments, outcome, enhanced, prs, summary, missing, repository,
                 detailed, detailedOutcome, operands>>

HandleEdgeCases ==
  /\ called = "none"
  /\ Len(operands) = 1
  /\ result' = handleEdgeCases(operands[1])
  /\ called' = "handleEdgeCases"
  /\ UNCHANGED <<pipelineVars, comments, outcome, enhanced, prs, summary, missing, repository,
                 detailed, detailedOutcome, operands>>

NextResolution == ReceiveComment \/ EnhanceCommentMetadata

NextReplies == ReceiveBatchComment \/ EnhanceCommentMetadata

SpecResolution == Init /\ [][NextResolution]_vars

SpecReplies == Init /\ [][NextReplies]_vars

NextSummary ==
  AddPullRequest \/ AddSummaryComment \/ CalculateSummary \/ CalculateDetailed

SpecSummary == Init /\ [][NextSummary]_vars

\* the caller adds a pull request without attached comments
AddPlainPullRequest ==
  /\ outcome = "pending"
  /\ Len(prs) < MaxVolumePRs
  /\ prs' = Append(prs,
       [number |-> Len(prs) + 1, title |-> "Add parser", state |-> "open",
        author |-> [login |-> "alice"], comments |-> <<>>])
  /\ UNCHANGED <<pipelineVars, comments, outcome, enhanced, summary, called, missing,
                 repository, detailed, detailedOutcome, operands, result>>

\* the caller adds a processed comment without reactions and replies
AddPlainComment ==
  /\ outcome = "pending"
  /\ Len(comments) < MaxVolumeComments
  /\ \E isResolved \in BOOLEAN :
       comments' = Append(comments,
         processedComment(Len(comments) + 1, <<>>, isResolved, <<>>))
  /\ UNCHANGED <<pipelineVars, outcome, enhanced, prs, summary, called, missing, repository,
                 detailed, detailedOutcome, operands, result>>

NextVolume == AddPlainPullRequest \/ AddPlainComment \/ CalculateSummary

SpecVolume == Init /\ [][NextVolume]_vars

NextContract ==
  \/ AddPullRequest \/ AddSummaryComment \/ OmitArgument
  \/ CalculateSummary \/ CalculateDetailed \/ EnhanceCommentMetadata

SpecContract == Init /\ [][NextContract]_vars

NextNumbers ==
  PushOperand \/ CalculateAverages \/ CalculatePercentages \/ HandleEdgeCases

SpecNumbers == Init /\ [][NextNumbers]_vars

----------------------------------------------------------------------------
(***************************************************************************)
(* Actions of the client and the collector.  The calls under study are     *)
(* made once the authenticate calls are over.                              *)
(***************************************************************************)
\* authenticate(config) up to its first await
BeginAuthenticate ==
  /\ callOutcome = noCalls
  /\ authentications < MaxAuthentications
  /\ \E config \in AuthConfigs :
       /\ authConfig' = config
       /\ authorization' = authorizationAtStart(config, authorization)
       /\ IF authenticateStart(config) = "threw"
          THEN /\ authenticated' = authenticatedAfterFailure(authenticated)
               /\ completed' = Append(completed, "failed")
               /\ UNCHANGED <<inFlight, requests>>
          ELSE /\ inFlight' = inFlight \cup
                    {[config |-> config, stage |-> authenticateStart(config)]}
               /\ requests' = [requests EXCEPT !.authenticate = @ + 1]
               /\ UNCHANGED <<authenticated, completed>>
  /\ authentications' = authentications + 1
  /\ UNCHANGED <<metricsVars, callOutcome, collectorVars, pullVars, offlineVars>>

\* the API answers the request an authenticate call waits for, and the call
\* runs on to its next await or to its end
CompleteAuthenticate ==
  /\ callOutcome = noCalls
  /\ \E call \in inFlight, accepted \in BOOLEAN :
       IF ~accepted
       THEN /\ authenticated' = authenticatedAfterFailure(authenticated)
            /\ completed' = Append(completed, "failed")
            /\ inFlight' = inFlight \ {call}
            /\ UNCHANGED <<authorization, requests>>
       ELSE IF call.stage = "installation"
            THEN /\ authorization' = <<"token", installationToken>>
                 /\ requests' = [requests EXCEPT !.authenticate = @ + 1]
                 /\ inFlight' = (inFlight \ {call}) \cup {[call EXCEPT !.stage = "user"]}
                 /\ UNCHANGED <<authenticated, completed>>
            ELSE /\ authenticated' = TRUE
                 /\ completed' = Append(completed, "succeeded")
                 /\ inFlight' = inFlight \ {call}
                 /\ UNCHANGED <<authorization, requests>>
  /\ UNCHANGED <<metricsVars, authConfig, authentications, callOutcome,
                 collectorVars, pullVars, offlineVars>>

\* a pull request reaches the list collectComments will get, with or
\* without comments attached earlier, and the API has an answer for its
\* comments
ServePullRequest ==
  /\ callOutcome.collectComments = "pending"
  /\ Len(prs) < MaxCollectPRs
  /\ LET number == Len(prs) + 1
     IN \E stale \in BOOLEAN, reply \in ServedReplies(10 * number) :
          /\ prs' = Append(prs,
               [number |-> number, title |-> "Add parser", state |-> "open",
                author |-> [login |-> "alice"],
                comments |-> IF stale THEN staleComments(10 * number) ELSE <<>>])
          /\ served' = Append(served, reply)
  /\ UNCHANGED <<comments, outcome, enhanced, summary, called, missing,
                 repository, detailed, detailedOutcome, operands, result,
                 authVars, requests, callOutcome, reviewer, previous, pullVars, offlineVars>>

\* collectComments(prs, reviewerUserName, repoConfig); a getComments call
\* issues a request for the review comments and one for the issue comments
\* at least
CollectComments ==
  /\ callOutcome.collectComments = "pending"
  /\ \E reviewerUserName \in Reviewers :
       /\ reviewer' = reviewerUserName
       /\ IF ~authenticated
          THEN /\ callOutcome' = [callOutcome EXCEPT !.collectComments = "threw"]
               /\ UNCHANGED <<comments, prs, previous, requests>>
          ELSE LET done == collectComments(prs, served, reviewerUserName)
               IN /\ callOutcome' = [callOutcome EXCEPT !.collectComments = "returned"]
                  /\ comments' = done.allComments
                  /\ prs' = done.prs
                  /\ previous' = [i \in 1..Len(prs) |-> prs[i].comments]
                  /\ requests' = [requests EXCEPT !.collectComments = @ + 2 * Len(prs)]
  /\ UNCHANGED <<outcome, enhanced, summary, called, missing, repository,
                 detailed, detailedOutcome, operands, result, authVars, served,
                 pullVars, offlineVars>>

\* the workflow computes the summary from what collectComments returned
SummariseCollected ==
  /\ callOutcome.collectComments = "returned"
  /\ CalculateSummary

NextCollect ==
  ServePullRequest \/ CollectComments \/ SummariseCollected \/ CalculateDetailed

SpecCollect == InitAuthenticated /\ [][NextCollect]_vars

----------------------------------------------------------------------------
\* the repository gets a pull: the API lists it after the pulls updated
\* later
ListPullRequest ==
  /\ callOutcome = noCalls
  /\ Len(listing) < MaxListing
  /\ \E created_at \in 0..MaxPullTime :
       \E updated_at \in created_at..MaxPullTime :
         /\ listing # <<>> => updated_at <= listing[Len(listing)].updated_at
         /\ listing' = Append(listing,
              listedPull(Len(listing) + 1, created_at, updated_at))
  /\ UNCHANGED <<metricsVars, authVars, requests, callOutcome, collectorVars,
                 period, pulled, collected, offlineVars>>

\* the analysis period of the configuration
ConfigurePeriod ==
  /\ callOutcome = noCalls
  /\ period = noPeriod
  /\ \E timePeriod \in Periods : period' = timePeriod
  /\ UNCHANGED <<metricsVars, authVars, requests, callOutcome, collectorVars,
                 listing, pulled, collected, offlineVars>>

\* GitHubClient.getPullRequests(repo, period)
GetPullRequests ==
  /\ callOutcome.getPullRequests = "pending"
  /\ period # noPeriod
  /\ IF ~authenticated
     THEN /\ callOutcome' = [callOutcome EXCEPT !.getPullRequests = "threw"]
          /\ UNCHANGED <<pulled, requests>>
     ELSE /\ callOutcome' = [callOutcome EXCEPT !.getPullRequests = "returned"]
          /\ pulled' = getPullRequests(listing, period)
          /\ requests' = [requests EXCEPT
               !.getPullRequests = @ + pagesRequested(listing, period)]
  /\ UNCHANGED <<metricsVars, authVars, collectorVars, listing, period, collected, offlineVars>>

\* GitHubClient.getComments(repo, prNumber): a request for the review
\* comments and one for the issue comments at least
GetComments ==
  /\ callOutcome.getComments = "pending"
  /\ IF ~authenticated
     THEN /\ callOutcome' = [callOutcome EXCEPT !.getComments = "threw"]
          /\ UNCHANGED requests
     ELSE /\ callOutcome' = [callOutcome EXCEPT !.getComments = "returned"]
          /\ requests' = [requests EXCEPT !.getComments = @ + 2]
  /\ UNCHANGED <<metricsVars, authVars, collectorVars, pullVars, offlineVars>>

\* DataCollector.collectPullRequests(config, repoConfig), on a GitHubClient
\* or on another IGitHubClient whose getPullRequests returns every pull
\* listed
CollectPullRequests ==
  /\ callOutcome.collectPullRequests = "pending"
  /\ period # noPeriod
  /\ IF ~authenticated
     THEN /\ callOutcome' = [callOutcome EXCEPT !.collectPullRequests = "threw"]
          /\ UNCHANGED <<collected, requests>>
     ELSE \E client \in {"GitHubClient", "other"} :
            LET pullRequests ==
                  IF client = "GitHubClient"
                  THEN getPullRequests(listing, period)
                  ELSE [n \in 1..Len(listing) |-> convertPullRequest(listing[n])]
            IN /\ callOutcome' = [callOutcome EXCEPT !.collectPullRequests = "returned"]
               /\ collected' = collectPullRequests(pullRequests, period)
               /\ requests' = [requests EXCEPT
                    !.collectPullRequests = @ + pagesRequested(listing, period)]
  /\ UNCHANGED <<metricsVars, authVars, collectorVars, listing, period, pulled, offlineVars>>

NextPulls ==
  ListPullRequest \/ ConfigurePeriod \/ GetPullRequests \/ CollectPullRequests

SpecPulls == InitAuthenticated /\ [][NextPulls]_vars

NextClient ==
  \/ BeginAuthenticate \/ CompleteAuthenticate \/ ConfigurePeriod
  \/ GetPullRequests \/ GetComments \/ CollectPullRequests \/ CollectComments

SpecClient == Init /\ [][NextClient]_vars

----------------------------------------------------------------------------
(***************************************************************************)
(* Actions of the data file.                                               *)
(***************************************************************************)
\* the run has collected a pull request, merged or not, with or without
\* comments attached
AddStoredPullRequest ==
  /\ file = NoFile
  /\ Len(toSave.prs) < MaxStoredPRs
  /\ LET number == Len(toSave.prs) + 1
     IN \E createdAt \in 1..MaxTime, merged \in BOOLEAN,
           attached \in {<<>>} \cup {<<c>> : c \in StoredComments(100 * number)} :
          toSave' = [toSave EXCEPT !.prs = Append(@,
            [number |-> number, createdAt |-> date(createdAt),
             updatedAt |-> date(MaxTime),
             mergedAt |-> IF merged THEN date(MaxTime) ELSE undefinedDate,
             comments |-> attached])]
  /\ UNCHANGED <<metricsVars, onlineVars, configVars, outputVars, fetchVars,
                 file, loaded, loadOutcome>>

\* the run has collected a comment
AddStoredComment ==
  /\ file = NoFile
  /\ Len(toSave.comments) < MaxStoredComments
  /\ \E comment \in StoredComments(10 * (Len(toSave.comments) + 1)) :
       toSave' = [toSave EXCEPT !.comments = Append(@, comment)]
  /\ UNCHANGED <<metricsVars, onlineVars, configVars, outputVars, fetchVars,
                 file, loaded, loadOutcome>>

\* DataStorage.saveCollectedData(filePath, prs, comments, metadata)
SaveCollectedData ==
  /\ file = NoFile
  /\ file' = saveCollectedData(toSave.prs, toSave.comments)
  /\ UNCHANGED <<metricsVars, onlineVars, configVars, outputVars, fetchVars,
                 toSave, loaded, loadOutcome>>

\* DataStorage.loadCollectedData(filePath)
LoadCollectedData ==
  /\ loadOutcome = "pending"
  /\ IF file = NoFile
     THEN loadOutcome' = "threw" /\ UNCHANGED loaded
     ELSE loadOutcome' = "returned" /\ loaded' = loadCollectedData(file)
  /\ UNCHANGED <<metricsVars, onlineVars, configVars, outputVars, fetchVars,
                 toSave, file>>

NextStorage ==
  AddStoredPullRequest \/ AddStoredComment \/ SaveCollectedData \/ LoadCollectedData

SpecStorage == Init /\ [][NextStorage]_vars

----------------------------------------------------------------------------
(***************************************************************************)
(* Actions of the configuration.                                           *)
(***************************************************************************)
\* the shell, the CI runner or the .env file sets a variable
SetEnvironment ==
  /\ configCall = "none"
  /\ \E name \in DOMAIN EnvironmentValues :
       /\ env[name] = noEnvironment[name]
       /\ \E value \in EnvironmentValues[name] :
            env' = [env EXCEPT ![name] = value]
  /\ UNCHANGED <<metricsVars, onlineVars, storageVars, outputVars, fetchVars,
                 loadedConfig, configOutcome, configCall>>

\* new ConfigurationManager().loadConfig()
LoadConfig ==
  /\ configCall = "none"
  /\ configCall' = "loadConfig"
  /\ IF loadConfigThrows(env)
     THEN configOutcome' = "threw" /\ UNCHANGED loadedConfig
     ELSE configOutcome' = "returned" /\ loadedConfig' = buildConfig(env)
  /\ UNCHANGED <<metricsVars, onlineVars, storageVars, outputVars, fetchVars, env>>

\* runCompleteWorkflow(options) up to the return of its loadConfig call
RunCompleteWorkflow ==
  /\ configCall = "none"
  /\ configCall' = "runCompleteWorkflow"
  /\ \E options \in WorkflowOptions :
       IF workflowThrowsOnRepository(options)
       THEN configOutcome' = "rejected" /\ UNCHANGED <<env, loadedConfig>>
       ELSE /\ env' = workflowEnvironment(env, options)
            /\ IF loadConfigThrows(workflowEnvironment(env, options))
               THEN configOutcome' = "threw" /\ UNCHANGED loadedConfig
               ELSE /\ configOutcome' = "returned"
                    /\ loadedConfig' = buildConfig(workflowEnvironment(env, options))
  /\ UNCHANGED <<metricsVars, onlineVars, storageVars, outputVars, fetchVars>>

NextConfig == SetEnvironment \/ LoadConfig \/ RunCompleteWorkflow

SpecConfig == Init /\ [][NextConfig]_vars

----------------------------------------------------------------------------
(***************************************************************************)
(* Actions of a paginated fetch.  The API answers each request as it       *)
(* likes: a page, a network error, a rate-limit 403 or another error.      *)
(***************************************************************************)
\* getPaginatedData(endpoint, params) up to its first request
StartFetch ==
  /\ fetchStatus = "idle"
  /\ fetchStatus' = "requesting"
  /\ pageRequests' = 1
  /\ UNCHANGED <<metricsVars, onlineVars, storageVars, configVars, outputVars,
                 page, retryCount, delays, received>>

\* the API answers with a page of 0..perPage items; the next request has a
\* configuration of its own
ReceivePage ==
  /\ fetchStatus = "requesting"
  /\ \E length \in 0..perPage :
       /\ received' = received + length
       /\ page' = IF length = 0 THEN page ELSE page + 1
       /\ IF fetchGoesOn(length, page + 1)
          THEN /\ fetchStatus' = "requesting"
               /\ pageRequests' = pageRequests + 1
          ELSE /\ fetchStatus' = "returned"
               /\ UNCHANGED pageRequests
  /\ retryCount' = 0
  /\ delays' = <<>>
  /\ UNCHANGED <<metricsVars, onlineVars, storageVars, configVars, outputVars>>

\* the request fails with ECONNRESET or ETIMEDOUT
NetworkError ==
  /\ fetchStatus = "requesting"
  /\ IF retryCount < maxRetries
     THEN /\ retryCount' = retryCount + 1
          /\ delays' = Append(delays, exponentialBackoff(retryCount))
          /\ fetchStatus' = "sleeping"
     ELSE /\ fetchStatus' = "threw"
          /\ UNCHANGED <<retryCount, delays>>
  /\ UNCHANGED <<metricsVars, onlineVars, storageVars, configVars, outputVars,
                 page, pageRequests, received>>

\* the API answers 403 with x-ratelimit-remaining 0; the time to the reset
\* is within the hour or not
RateLimited ==
  /\ fetchStatus = "requesting"
  /\ \E withinTheHour \in BOOLEAN :
       fetchStatus' = IF withinTheHour THEN "sleeping" ELSE "threw"
  /\ UNCHANGED <<metricsVars, onlineVars, storageVars, configVars, outputVars,
                 page, retryCount, pageRequests, delays, received>>

\* the request fails in another way
RequestFailed ==
  /\ fetchStatus = "requesting"
  /\ fetchStatus' = "threw"
  /\ UNCHANGED <<metricsVars, onlineVars, storageVars, configVars, outputVars,
                 page, retryCount, pageRequests, delays, received>>

\* the sleep is over: this.client.request(error.config)
Resume ==
  /\ fetchStatus = "sleeping"
  /\ fetchStatus' = "requesting"
  /\ UNCHANGED <<metricsVars, onlineVars, storageVars, configVars, outputVars,
                 page, retryCount, pageRequests, delays, received>>

NextFetch ==
  \/ StartFetch \/ ReceivePage \/ NetworkError \/ RateLimited
  \/ RequestFailed \/ Resume

\* the event loop runs what is ready, and the API answers every request
SpecFetchFair == Init /\ [][NextFetch]_vars /\ WF_vars(NextFetch)

----------------------------------------------------------------------------
(***************************************************************************)
(* Actions of the client's output.                                         *)
(***************************************************************************)
\* console.log / console.error / console.warn with one argument, a string
\* or an object that prints as the message
WriteConsole ==
  /\ \E message \in Messages, isString \in BOOLEAN :
       written' =
         [text |-> sanitizeArgument([text |-> message, isString |-> isString],
                                    authConfig),
          credentials |-> credentialsHeld(authConfig, authorization)]
  /\ UNCHANGED <<metricsVars, onlineVars, storageVars, configVars, fetchVars,
                 thrown>>

\* a request of the client fails with an error that has this message, or
\* authenticate raises 'Authentication failed: ' followed by it
SurfaceError ==
  /\ \E message \in Messages :
       thrown' =
         [text |-> sanitizeErrorMessage(message, authConfig),
          credentials |-> credentialsHeld(authConfig, authorization)]
  /\ UNCHANGED <<metricsVars, onlineVars, storageVars, configVars, fetchVars,
                 written>>

NextOutput ==
  BeginAuthenticate \/ CompleteAuthenticate \/ WriteConsole \/ SurfaceError

SpecOutput == Init /\ [][NextOutput]_vars

----------------------------------------------------------------------------
(***************************************************************************)
(* Properties of resolution detection and reaction classification          *)
(* (SpecResolution)                                                        *)
(***************************************************************************)
positiveKinds == {"thumbs_up", "heart", "hooray", "rocket"}
negativeKinds == {"thumbs_down", "confused"}

countOfKinds(reactions, kinds) ==
  Cardinality({j \in 1..Len(reactions) : reactions[j].type \in kinds})

hasBody(comment) == comment.body # UndefinedBody

hasMarker(comment) ==
  includes(comment.body, resolvedTag) \/ includes(comment.body, checkMark)

hasMarkerAnyCase(comment) ==
  includes(toLowerCase(comment.body), resolvedTag)
    \/ includes(toLowerCase(comment.body), checkMark)

hasKeyword(comment) ==
  \E keyword \in resolutionKeywords : includes(toLowerCase(comment.body), keyword)

edited(comment) == comment.updatedAt > comment.createdAt

addressedInCommit ==
  <<"A","d","d","r","e","s","s","e","d"," ","i","n"," ","c","o","m","m","i","t"," ">>

\* C1: a comment that matches neither step 1 (marker) nor step 2 (edited and
\* keyword) is resolved exactly when it has two or more positive reactions;
\* this includes an edited comment without keyword.
C1_FallsThroughToReactions ==
  outcome = "returned" =>
    \A i \in 1..Len(comments) :
      (/\ hasBody(comments[i])
       /\ ~hasMarkerAnyCase(comments[i])
       /\ ~(edited(comments[i]) /\ hasKeyword(comments[i])))
      => (enhanced[i].isResolved
            <=> countOfKinds(comments[i].reactions, positiveKinds) >= 2)

\* C2: a comment with the [resolved] tag or the check mark is resolved, and so
\* is an edited comment whose lower-cased body holds a keyword, whatever its
\* reactions.
C2_MarkerOrEditedKeywordResolves ==
  outcome = "returned" =>
    \A i \in 1..Len(comments) :
      (/\ hasBody(comments[i])
       /\ \/ hasMarker(comments[i])
          \/ edited(comments[i]) /\ hasKeyword(comments[i]))
      => enhanced[i].isResolved

C2_Witness ==
  /\ outcome = "returned"
  /\ \E i \in 1..Len(comments) :
       /\ hasBody(comments[i])
       /\ ~hasMarkerAnyCase(comments[i])
       /\ edited(comments[i]) /\ hasKeyword(comments[i])
       /\ comments[i].reactions = <<>>
       /\ enhanced[i].isResolved

\* C3: a comment whose body holds an "Addressed in commit <hash>" message is
\* resolved, edited or not, reactions or not.
C3_AddressedInCommitResolves ==
  outcome = "returned" =>
    \A i \in 1..Len(comments) :
      (hasBody(comments[i]) /\ includes(comments[i].body, addressedInCommit))
      => enhanced[i].isResolved

C5_ClassificationKeepsReactions ==
  outcome = "returned" =>
    \A i \in 1..Len(comments) :
      /\ Len(enhanced[i].reactions) = Len(comments[i].reactions)
      /\ hasBody(comments[i]) =>
           \A j \in 1..Len(comments[i].reactions) :
             IF comments[i].reactions[j].type \in validTypes
             THEN enhanced[i].reactions[j].type = comments[i].reactions[j].type
             ELSE /\ enhanced[i].reactions[j].type = "unknown"
                  /\ enhanced[i].reactions[j].type \notin positiveKinds \cup negativeKinds

C5_Witness ==
  /\ outcome = "returned"
  /\ \E i \in 1..Len(comments) :
       /\ hasBody(comments[i])
       /\ Len(comments[i].reactions) = 2
       /\ comments[i].reactions[1].type = "invalid_type"
       /\ comments[i].reactions[2].type = "rocket"
       /\ enhanced[i].reactions[1].type = "unknown"
       /\ enhanced[i].reactions[2].type = "rocket"

----------------------------------------------------------------------------
(***************************************************************************)
(* Properties of the reply lists (SpecReplies)                             *)
(***************************************************************************)
RECURSIVE sumOfReplies(_, _)
sumOfReplies(batch, n) ==
  IF n = 0 THEN 0 ELSE sumOfReplies(batch, n - 1) + Len(batch[n].replies)

repliesTo(batch, id) == {j \in 1..Len(batch) : batch[j].inReplyToId = id}

\* C7: the replies list of an enriched comment holds exactly the comments of
\* the batch that reply to it, each once, by createdAt ascending; it is empty
\* when no comment replies to it.
C7_RepliesAreTheChildrenInTimeOrder ==
  outcome = "returned" =>
    \A i \in 1..Len(comments) :
      hasBody(comments[i]) =>
        LET replies == enhanced[i].replies
            children == repliesTo(comments, comments[i].id)
        IN /\ Len(replies) = Cardinality(children)
           /\ {replies[k] : k \in 1..Len(replies)} = {comments[j] : j \in children}
           /\ \A k \in 1..Len(replies) - 1 :
                replies[k].createdAt <= replies[k + 1].createdAt

C7_Witness ==
  /\ outcome = "returned"
  /\ \E i, j, k \in 1..Len(comments) :
       /\ j < k
       /\ comments[j].createdAt > comments[k].createdAt
       /\ enhanced[i].replies = <<comments[k], comments[j]>>
       /\ enhanced[j].replies = <<>>

wellFormed(batch) ==
  \A i \in 1..Len(batch) : hasBody(batch[i]) /\ isDate(batch[i].createdAt)

\* C8 as claimed, on batches of well-formed comments already: the lengths of
\* the replies lists add up to the number of comments that have inReplyToId
\* set.
C8_RepliesSumToAllReplies ==
  (outcome = "returned" /\ wellFormed(comments)) =>
    sumOfReplies(enhanced, Len(enhanced))
      = Cardinality({j \in 1..Len(comments) : comments[j].inReplyToId # 0})

\* C8 as amended: the lengths of the replies lists add up to the number of
\* comments whose inReplyToId is the id of an enriched comment of the batch.
C8_RepliesSumToRepliesWithParent ==
  outcome = "returned" =>
    sumOfReplies(enhanced, Len(enhanced))
      = Cardinality({j \in 1..Len(comments) :
           /\ comments[j].inReplyToId # 0
           /\ \E i \in 1..Len(comments) :
                hasBody(comments[i]) /\ comments[i].id = comments[j].inReplyToId})

C8_Witness ==
  /\ outcome = "returned"
  /\ Len(comments) = 3
  /\ comments[1].inReplyToId = 2
  /\ comments[2].inReplyToId = MaxBatch + 1
  /\ comments[3].inReplyToId = 2
  /\ sumOfReplies(enhanced, Len(enhanced)) = 2

permute(batch, p) == [i \in 1..Len(batch) |-> batch[p[i]]]

\* C9, on batches of well-formed comments already: enriching any permutation
\* of the batch gives every comment id the same isResolved and the same
\* replies sequence.
C9_OrderInsensitive ==
  (outcome = "returned" /\ wellFormed(comments)) =>
    \A p \in Permutations(1..Len(comments)) :
      LET reordered == permute(comments, p)
          again == enhanceCommentMetadata(reordered)
      IN \A i \in 1..Len(comments) :
           /\ again[i].id = enhanced[p[i]].id
           /\ again[i].isResolved = enhanced[p[i]].isResolved
           /\ again[i].replies = enhanced[p[i]].replies

\* C10: the call never raises, whatever fails for a comment; a comment whose
\* enrichment fails is emitted as received and every other comment is emitted
\* enriched.
C10_FailureStaysInItsComment ==
  outcome # "pending" =>
    /\ outcome = "returned"
    /\ Len(enhanced) = Len(comments)
    /\ \A i \in 1..Len(comments) :
         IF hasBody(comments[i])
         THEN /\ enhanced[i].isResolved = detectResolutionStatus(comments[i])
              /\ Len(enhanced[i].replies)
                   = Cardinality(repliesTo(comments, comments[i].id))
         ELSE enhanced[i] = comments[i]

\* C11: a call that returns gives one record per comment of the batch, in the
\* order of the batch and with the id of the comment at each position; on an
\* empty batch the call returns the empty list and does not raise.
C11_OneRecordPerComment ==
  /\ outcome = "returned" =>
       /\ Len(enhanced) = Len(comments)
       /\ \A i \in 1..Len(comments) : enhanced[i].id = comments[i].id
  /\ (outcome # "pending" /\ comments = <<>>) =>
       (outcome = "returned" /\ enhanced = <<>>)

C11_Witness ==
  /\ outcome = "returned"
  /\ Len(comments) = 3 /\ Len(enhanced) = 3
  /\ ~hasBody(comments[2]) /\ enhanced[2] = comments[2]
  /\ enhanced[1].replies = <<comments[3]>>
  /\ \A i \in 1..3 : enhanced[i].id = i

----------------------------------------------------------------------------
(***************************************************************************)
(* Properties of the summary (SpecSummary)                                 *)
(***************************************************************************)
\* the reactions <<comment, position>> of the batch with a kind in kinds
reactionsOfKinds(batch, kinds) ==
  UNION { { <<i, j>> : j \in {k \in 1..Len(batch[i].reactions) :
                                batch[i].reactions[k].type \in kinds} } :
          i \in 1..Len(batch) }

C12_EmptyPrsGiveZeroSummary ==
  (called # "none" /\ prs = <<>>) =>
    /\ outcome = "returned"
    /\ summary.totalPRs = 0
    /\ summary.totalComments = 0
    /\ summary.averageCommentsPerPR = 0
    /\ summary.positiveReactions = 0
    /\ summary.negativeReactions = 0
    /\ summary.repliedComments = 0
    /\ summary.resolvedComments = 0

C12_Witness ==
  /\ called = "calculateSummary" /\ outcome = "returned"
  /\ prs = <<>>
  /\ Len(comments) = 2
  /\ comments[1].isResolved /\ Len(comments[1].replies) = 2
  /\ comments[2].reactions = convertReactions(<<"heart", "hooray", "rocket">>)
  /\ summary.totalComments = 0 /\ summary.positiveReactions = 0

RECURSIVE sumOfValues(_)
sumOfValues(breakdown) ==
  IF DOMAIN breakdown = {} THEN 0
  ELSE LET key == CHOOSE k \in DOMAIN breakdown : TRUE
       IN breakdown[key]
            + sumOfValues([k \in DOMAIN breakdown \ {key} |-> breakdown[k]])

\* C13: the detailed breakdown computed from the lists the summary was
\* computed from agrees with it: byState and byAuthor each add up to totalPRs,
\* resolved + unresolved is totalComments, resolved is resolvedComments, and
\* positiveVsNegative is positiveReactions / negativeReactions.
C13_BreakdownAgreesWithSummary ==
  (outcome = "returned" /\ detailedOutcome = "returned") =>
    /\ sumOfValues(detailed.prBreakdown.byState) = summary.totalPRs
    /\ sumOfValues(detailed.prBreakdown.byAuthor) = summary.totalPRs
    /\ detailed.commentBreakdown.byResolution.resolved
         + detailed.commentBreakdown.byResolution.unresolved = summary.totalComments
    /\ detailed.commentBreakdown.byResolution.resolved = summary.resolvedComments
    /\ detailed.reactionBreakdown.positiveVsNegative.positive
         = summary.positiveReactions
    /\ detailed.reactionBreakdown.positiveVsNegative.negative
         = summary.negativeReactions

C19_OneRowPerPullRequest ==
  detailedOutcome = "returned" =>
    /\ Len(detailed.prDetails) = Len(prs)
    /\ \A i \in 1..Len(prs) :
         LET row == detailed.prDetails[i]
             attached == prs[i].comments
         IN /\ row.number = prs[i].number
            /\ row.title = prs[i].title
            /\ row.totalComments = Len(attached)
            /\ row.aiComments = Len(attached)
            /\ row.resolvedAiComments
                 = Cardinality({j \in 1..Len(attached) : attached[j].isResolved})
            /\ row.positiveReactions
                 = Cardinality(reactionsOfKinds(attached, positiveKinds))
            /\ row.negativeReactions
                 = Cardinality(reactionsOfKinds(attached, negativeKinds))
            /\ row.url = << "https://github.com/",
                            IF repository = UndefinedRepository
                            THEN "owner/repo" ELSE repository,
                            "/pull/", prs[i].number >>

C19_Witness ==
  /\ detailedOutcome = "returned"
  /\ repository = "acme/widgets"
  /\ Len(prs) = 2 /\ Len(prs[1].comments) = 2 /\ prs[2].comments = <<>>
  /\ Len(comments) = 1 /\ comments[1].isResolved
  /\ comments[1].reactions = convertReactions(<<"confused", "laugh", "eyes">>)
  /\ detailed.prDetails[1].url = <<"https://github.com/", "acme/widgets", "/pull/", 1>>
  /\ detailed.prDetails[1].resolvedAiComments = 1
  /\ detailed.prDetails[1].positiveReactions = 3
  /\ detailed.prDetails[1].negativeReactions = 1
  /\ detailed.prDetails[2].totalComments = 0
  /\ detailed.prDetails[2].negativeReactions = 0

----------------------------------------------------------------------------
(***************************************************************************)
(* Properties of the average (SpecVolume); averageCommentsPerPR is in      *)
(* hundredths                                                              *)
(***************************************************************************)
\* C14: for a non-empty prs list averageCommentsPerPR is the hundredth nearest
\* to (number of comments) / (number of prs); for an empty prs list it is 0.
C14_AverageIsRoundedQuotient ==
  outcome = "returned" =>
    IF prs = <<>> THEN summary.averageCommentsPerPR = 0
    ELSE LET twiceError == 2 * summary.averageCommentsPerPR * Len(prs)
                             - 200 * Len(comments)
         IN /\ twiceError <= Len(prs)
            /\ 0 - twiceError <= Len(prs)

C14_Witness ==
  /\ outcome = "returned"
  /\ Len(prs) = 3 /\ Len(comments) = 2
  /\ summary.averageCommentsPerPR = 67

----------------------------------------------------------------------------
(***************************************************************************)
(* Properties of the numeric helpers (SpecNumbers)                         *)
(***************************************************************************)
valueIsZero(x) == x.kind = "finite" /\ x.num = 0
valueBelowZero(x) == x.kind = "-Infinity" \/ (x.kind = "finite" /\ x.num < 0)

\* C15: calculatePercentages(n, d) is 0 when d is 0, whatever n is, and 0 when
\* n or d is negative.
C15_ZeroOnZeroOrNegative ==
  called = "calculatePercentages" =>
    ((valueIsZero(operands[2]) \/ valueBelowZero(operands[1])
        \/ valueBelowZero(operands[2]))
      => valueIsZero(result))

C15_Witness ==
  /\ called = "calculatePercentages"
  /\ operands = <<integer(-1), integer(3)>>
  /\ valueIsZero(result)

\* C16, on a numerator that does not exceed the denominator already: for
\* n >= 0 and d > 0 calculatePercentages(n, d) is a number of tenths, the one
\* nearest to 100 * n / d.
C16_RoundedToOneDecimal ==
  (/\ called = "calculatePercentages"
   /\ operands[1].kind = "finite" /\ operands[2].kind = "finite"
   /\ operands[1].num >= 0 /\ operands[2].num > 0
   /\ operands[1].num <= operands[2].num)
  => /\ result.kind = "finite"
     /\ (10 * result.num) % result.den = 0
     /\ LET error == result.num * operands[2].num
                       - 100 * operands[1].num * result.den
        IN /\ 20 * error <= result.den * operands[2].num
           /\ 0 - 20 * error <= result.den * operands[2].num

\* C17: calculateAverages, calculatePercentages and handleEdgeCases return a
\* finite number for every input; handleEdgeCases gives 0 for NaN and for the
\* infinities, and calculateAverages gives 0 for the empty list.
C17_NeverNaNNorInfinite ==
  called \in {"calculateAverages", "calculatePercentages", "handleEdgeCases"} =>
    /\ result.kind = "finite"
    /\ (called = "handleEdgeCases" /\ operands[1].kind # "finite")
         => valueIsZero(result)
    /\ (called = "calculateAverages" /\ operands = <<>>) => valueIsZero(result)

----------------------------------------------------------------------------
(***************************************************************************)
(* Properties of the entry points on null / undefined (SpecContract)       *)
(***************************************************************************)
\* C20: a call of calculateSummary or calculateDetailed with null or undefined
\* for prs or comments, and a call of enhanceCommentMetadata with null or
\* undefined for comments, raises; it does not return a result.
C20_MissingCollectionRaises ==
  /\ (called \in {"calculateSummary", "calculateDetailed"} /\ missing # {})
       => outcome = "threw"
  /\ (detailedOutcome # "pending" /\ missing # {})
       => detailedOutcome = "threw"
  /\ (called = "enhanceCommentMetadata" /\ "comments" \in missing)
       => outcome = "threw"

----------------------------------------------------------------------------
(***************************************************************************)
(* Properties of comment collection (SpecCollect)                          *)
(***************************************************************************)
equalsIgnoringCase(a, b) ==
  /\ Len(a) = Len(b)
  /\ \A k \in 1..Len(a) : lowerChar(a[k]) = lowerChar(b[k])

\* fetching or parsing the comments of pull request i fails
failedPR(i) ==
  \/ served[i].failed
  \/ \E k \in 1..Len(served[i].comments) :
       served[i].comments[k].author.login = UndefinedLogin

idsOf(list) == [k \in 1..Len(list) |-> list[k].id]

\* the ids of the comments fetched for pull request i that the reviewer wrote
reviewerIds(i) ==
  idsOf(SelectSeq(served[i].comments,
                  LAMBDA comment : equalsIgnoringCase(comment.author.login, reviewer)))

RECURSIVE reviewerIdsUpTo(_)
reviewerIdsUpTo(n) ==
  IF n = 0 THEN <<>>
  ELSE reviewerIdsUpTo(n - 1) \o (IF failedPR(n) THEN <<>> ELSE reviewerIds(n))

\* the pull request a fetched comment id belongs to
prOf(id) == id \div 10

RECURSIVE attachedUpTo(_)
attachedUpTo(n) ==
  IF n = 0 THEN <<>> ELSE attachedUpTo(n - 1) \o prs[n].comments

RECURSIVE rowCommentsUpTo(_)
rowCommentsUpTo(n) ==
  IF n = 0 THEN 0 ELSE rowCommentsUpTo(n - 1) + detailed.prDetails[n].totalComments

C29_FailureStaysInItsPullRequest ==
  (authenticated /\ callOutcome.collectComments # "pending") =>
    /\ callOutcome.collectComments = "returned"
    /\ \A i \in 1..Len(prs) :
         LET returnedOfPR ==
               SelectSeq(comments, LAMBDA comment : prOf(comment.id) = i)
         IN IF failedPR(i)
            THEN prs[i].comments = previous[i] /\ returnedOfPR = <<>>
            ELSE idsOf(returnedOfPR) = reviewerIds(i)
    /\ \A j, k \in 1..Len(comments) :
         j < k => prOf(comments[j].id) <= prOf(comments[k].id)

C29_Witness ==
  /\ callOutcome.collectComments = "returned"
  /\ Len(prs) = 2
  /\ failedPR(1) /\ ~served[1].failed
  /\ previous[1] # <<>> /\ prs[1].comments = previous[1]
  /\ ~failedPR(2) /\ Len(comments) = 2

\* C30: when every pull request enters collectComments with an empty
\* comments field, the list returned is the concatenation, in pull request
\* order, of the comments fields after the call, each of them holding the
\* reviewer comments fetched for its pull request; and totalComments of the
\* summary computed from that list is the sum of totalComments over the
\* rows of prDetails.
C30_ResultIsTheAttachedComments ==
  (/\ callOutcome.collectComments = "returned"
   /\ \A i \in 1..Len(prs) : previous[i] = <<>>)
  => /\ comments = attachedUpTo(Len(prs))
     /\ \A i \in 1..Len(prs) :
          idsOf(prs[i].comments) = (IF failedPR(i) THEN <<>> ELSE reviewerIds(i))
     /\ detailedOutcome = "returned" =>
          summary.totalComments = rowCommentsUpTo(Len(detailed.prDetails))

C30_Witness ==
  /\ callOutcome.collectComments = "returned"
  /\ detailedOutcome = "returned"
  /\ Len(prs) = 2
  /\ \A i \in 1..Len(prs) : previous[i] = <<>>
  /\ Len(prs[1].comments) = 2 /\ Len(prs[2].comments) = 1
  /\ summary.totalComments = 3

(***************************************************************************)
(* Properties of pull request collection (SpecPulls) and of the client's   *)
(* authentication state (SpecClient)                                       *)
(***************************************************************************)
withinPeriod(time) == period.start <= time /\ time <= period.end

\* C22: every pull request collectPullRequests returns was created within
\* the period, bounds included, whichever client produced the list.
C22_CollectedWithinPeriod ==
  callOutcome.collectPullRequests = "returned" =>
    \A i \in 1..Len(collected) : withinPeriod(collected[i].createdAt)

C22_Witness ==
  /\ callOutcome.collectPullRequests = "returned"
  /\ \E n \in 1..Len(listing) : listing[n].created_at > period.end
  /\ \E i \in 1..Len(collected) : collected[i].createdAt = period.start
  /\ \E i \in 1..Len(collected) : collected[i].createdAt = period.end

\* C23: every pull the API lists whose created_at is within the period is
\* in the result of getPullRequests, also when a pull created before the
\* period and updated later precedes it in the listing.
C23_EveryPullOfThePeriodRetrieved ==
  callOutcome.getPullRequests = "returned" =>
    \A n \in 1..Len(listing) :
      withinPeriod(listing[n].created_at) =>
        \E i \in 1..Len(pulled) : pulled[i].number = listing[n].number

\* C28: isAuthenticated() is true exactly when the authenticate call that
\* completed last succeeded; while it is false, getPullRequests,
\* getComments, collectPullRequests and collectComments raise and no API
\* request is issued for them.
C28_AuthenticatedIffLastSucceeded ==
  /\ authenticated <=>
       (completed # <<>> /\ completed[Len(completed)] = "succeeded")
  /\ ~authenticated =>
       \A entry \in DOMAIN callOutcome :
         callOutcome[entry] # "returned" /\ requests[entry] = 0

C28_Witness ==
  /\ completed = <<"succeeded", "failed">>
  /\ ~authenticated
  /\ \A entry \in DOMAIN callOutcome : callOutcome[entry] = "threw"
  /\ requests.authenticate > 0

(***************************************************************************)
(* Properties of the data file (SpecStorage)                               *)
(***************************************************************************)
\* the timestamps of a loaded comment are the Dates of the saved one, its
\* reactions' and replies' included
sameCommentDates(after, before) ==
  /\ after.createdAt = before.createdAt /\ after.updatedAt = before.updatedAt
  /\ \A k \in 1..Len(before.reactions) :
       after.reactions[k].createdAt = before.reactions[k].createdAt
  /\ \A k \in 1..Len(before.replies) :
       /\ after.replies[k].createdAt = before.replies[k].createdAt
       /\ after.replies[k].updatedAt = before.replies[k].updatedAt

\* C24: after saveCollectedData and loadCollectedData every createdAt,
\* updatedAt and mergedAt of every pull request, of every comment of the
\* comments list and of every comment attached to a pull request, of their
\* reactions and of their replies is the Date that was saved.
C24_TimestampsRoundTrip ==
  loadOutcome = "returned" =>
    /\ \A n \in 1..Len(toSave.prs) :
         /\ loaded.prs[n].createdAt = toSave.prs[n].createdAt
         /\ loaded.prs[n].updatedAt = toSave.prs[n].updatedAt
         /\ loaded.prs[n].mergedAt = toSave.prs[n].mergedAt
         /\ \A k \in 1..Len(toSave.prs[n].comments) :
              sameCommentDates(loaded.prs[n].comments[k], toSave.prs[n].comments[k])
    /\ \A k \in 1..Len(toSave.comments) :
         sameCommentDates(loaded.comments[k], toSave.comments[k])

(***************************************************************************)
(* Properties of the configuration (SpecConfig)                            *)
(***************************************************************************)
isOwnerRepo(name) == Len(name) = 2 /\ name[1] # "" /\ name[2] # ""

separateNames ==
  env.GITHUB_REPOSITORY_OWNER # "" /\ env.GITHUB_REPOSITORY_NAME # ""

\* C25: with a token in the environment, loadConfig returns the repository
\* of GITHUB_REPOSITORY (owner/repo) when that is set, the one of
\* GITHUB_REPOSITORY_OWNER and GITHUB_REPOSITORY_NAME when those are set,
\* and raises a ConfigurationError when neither is; so the loadConfig call
\* of runCompleteWorkflow, which sets GITHUB_REPOSITORY only, returns.
C25_RepositoryFromEnvironment ==
  (configOutcome \in {"returned", "threw"} /\ env.GITHUB_TOKEN # "") =>
    LET fromName ==
          /\ isOwnerRepo(env.GITHUB_REPOSITORY)
          /\ configOutcome = "returned"
          /\ loadedConfig.repository = [owner |-> env.GITHUB_REPOSITORY[1],
                                  repo |-> env.GITHUB_REPOSITORY[2]]
        fromSeparate ==
          /\ separateNames
          /\ configOutcome = "returned"
          /\ loadedConfig.repository = [owner |-> env.GITHUB_REPOSITORY_OWNER,
                                  repo |-> env.GITHUB_REPOSITORY_NAME]
    IN IF isOwnerRepo(env.GITHUB_REPOSITORY) \/ separateNames
       THEN fromName \/ fromSeparate
       ELSE configOutcome = "threw"

(***************************************************************************)
(* Properties of a paginated fetch (SpecFetchFair)                         *)
(***************************************************************************)
fetchOver == fetchStatus \in {"returned", "threw"}

\* at most 100 page requests, at most 3 retries after network errors, slept
\* for 1 s, 2 s and 4 s
fetchBounded ==
  /\ pageRequests <= 100
  /\ retryCount <= 3
  /\ \E n \in 0..3 : delays = SubSeq(<<1000, 2000, 4000>>, 1, n)

\* C27: every fetch ends, by returning or by raising the error to its
\* caller: it asks for 100 pages at most, and a request that fails with a
\* network error or a rate-limit 403 is sent again a bounded number of times
\* only (3 times at most after network errors, after 1 s, 2 s and 4 s).
C27_EveryFetchTerminates ==
  /\ []fetchBounded
  /\ (fetchStatus = "requesting") ~> fetchOver

(***************************************************************************)
(* Properties of the client's output (SpecOutput)                          *)
(***************************************************************************)
quotes(output, secret) == \E k \in 1..Len(output.text) : output.text[k] = secret

\* C26: no line written through the console methods and no message of an
\* error raised by the client holds a credential the client held at that
\* time, be it the configured personal token or the installation token of
\* a GitHub App.
C26_NoCredentialInOutput ==
  /\ \A secret \in written.credentials : ~quotes(written, secret)
  /\ \A secret \in thrown.credentials : ~quotes(thrown, secret)

====
